---- MODULE Spec2Model ----
(***************************************************************************)
(* Model of the realman-teleop control loop: SafetyMonitor (safety.py),    *)
(* TeleopBase.run (teleop_base.py) and its two input sources,              *)
(* KeyboardTeleop (keyboard_teleop.py) and JoystickTeleop                  *)
(* (joystick_teleop.py).                                                   *)
(*                                                                         *)
(* Physical quantities are exact rationals [n, d] in the units of the      *)
(* source (metres, radians, degrees, seconds); Python's floats are         *)
(* modelled by exact rational arithmetic.                                  *)
(***************************************************************************)
EXTENDS Integers, Sequences, FiniteSets, TLC

(***************************************************************************)
(* Rational arithmetic                                                     *)
(***************************************************************************)
Abs(x) == IF x < 0 THEN -x ELSE x

RECURSIVE GCD(_, _)
GCD(a, b) == IF b = 0 THEN a ELSE GCD(b, a % b)

\* the rational n/d in lowest terms with a positive denominator (d # 0)
Rat(n, d) ==
    LET s == IF d < 0 THEN -1 ELSE 1
        g == GCD(Abs(n), Abs(d))
    IN  [n |-> (s * n) \div g, d |-> (s * d) \div g]

Zero == Rat(0, 1)
RAdd(a, b) == Rat(a.n * b.d + b.n * a.d, a.d * b.d)
RSub(a, b) == Rat(a.n * b.d - b.n * a.d, a.d * b.d)
RMul(a, b) == Rat(a.n * b.n, a.d * b.d)
RDiv(a, b) == Rat(a.n * b.d, a.d * b.n)
RNeg(a) == [n |-> -a.n, d |-> a.d]
RAbs(a) == [n |-> Abs(a.n), d |-> a.d]
RLt(a, b) == a.n * b.d < b.n * a.d
RLe(a, b) == a.n * b.d <= b.n * a.d
RGt(a, b) == RLt(b, a)

\* Python's max() over a non-empty list of numbers
RMaxSeq(s) == CHOOSE m \in {s[i] : i \in DOMAIN s} :
                 \A j \in DOMAIN s : RLe(s[j], m)

\* thousandths: Milli(698) is 0.698
Milli(k) == Rat(k, 1000)

(***************************************************************************)
(* State                                                                   *)
(***************************************************************************)
VARIABLES
    \* SafetyMonitor (safety.py)
    enable_velocity_limits,     \* constructor flag
    enable_workspace_limits,    \* constructor flag
    max_linear_velocity,        \* m/s
    max_angular_velocity,       \* rad/s
    max_joint_velocity,         \* deg/s
    workspace_limits,           \* [x, y, z |-> <<min, max>>] in metres
    violations,                 \* named violations of the last check
    emergency_stop_triggered,   \* the sticky latch
    safety_stop_sent,           \* robot.stop() was issued by trigger_emergency_stop
    collision_level,
    config_error,               \* the exception the last setter call raised
    \* a direct caller of SafetyMonitor.check_commands
    cmdIn,                      \* the command handed to check_commands
    poseRead,                   \* what robot.get_current_pose() returns (<<>> is None)
    jointsRead,                 \* what robot.get_current_joint_angles() returns
    result,                     \* the command check_commands returned last
    armed,                      \* trigger_emergency_stop was called and no reset since
    nChecked,                   \* check_commands calls since the last trigger/reset
    nStopped,                   \* of the calls since the last trigger, those that
                                \* returned a stop command
    \* a direct caller of ControlMode.compute_command
    control,
    \* TeleopBase and its subclass
    source,                     \* "pygame" | "terminal" (KeyboardTeleop) | "joystick"
    pc,                         \* position of the session thread in run()
    exitBy,                     \* how the loop was left
    running,
    enabled,                    \* deadman switch state
    toggle_enable,              \* terminal mode toggle
    mode,                       \* "cartesian" | "joint"
    pressed,                    \* the lazily created _<action>_pressed attributes
    linear_speed,
    angular_speed,
    joint_speed,
    turbo_active,
    cleanups,                   \* executions of cleanup()
    \* the tick in progress
    keys,                       \* the physical inputs held during this tick
    input_state,
    commands,
    calls,                      \* calls that reached the robot backend in this tick
    fired,                      \* toggle-style actions that fired in this tick
    prevEnabled,                \* enabled at the start of this tick
    latchedAtRead,              \* the safety latch was set when this tick began
                                \* and has not been reset since
    missing,                    \* the robot state this tick asked for was None
    \* the operator and an observer of one toggle-style action
    allowed,                    \* the inputs the operator uses in this session
    nSpeedKeys,                 \* ticks so far on which a speed key was held
    spaceOdd,                   \* the terminal has delivered SPACE an odd number of times
    backend,                    \* whether the arm may reject a move, and the status
                                \* code of this tick's last move (0 when none)
    watch

safetyVars == <<enable_velocity_limits, enable_workspace_limits,
                max_linear_velocity, max_angular_velocity, max_joint_velocity,
                workspace_limits, violations, emergency_stop_triggered,
                safety_stop_sent, collision_level, config_error>>
callerVars == <<cmdIn, poseRead, jointsRead, result, armed, nChecked, nStopped,
                control>>
sessionVars == <<source, pc, exitBy, running, enabled, toggle_enable, mode, pressed,
                 linear_speed, angular_speed, joint_speed, turbo_active, cleanups>>
tickVars == <<keys, input_state, commands, calls, fired, prevEnabled,
              latchedAtRead, missing>>
envVars == <<allowed, nSpeedKeys, spaceOdd, backend, watch>>
vars == <<safetyVars, callerVars, sessionVars, tickVars, envVars>>

(***************************************************************************)
(* SafetyMonitor                                                           *)
(***************************************************************************)
\* dict.get(key, default)
Get(cmd, key, default) ==
    IF key \in DOMAIN cmd THEN cmd[key] ELSE default

\* the assumed time step of the velocity estimate
dt_assumed == Rat(1, 100)

DefaultMaxLinearVelocity == Rat(1, 2)
DefaultMaxAngularVelocity == Rat(1, 1)
DefaultMaxJointVelocity == Rat(30, 1)
DefaultWorkspaceLimits ==
    [x |-> <<Rat(-7, 10), Rat(7, 10)>>,
     y |-> <<Rat(-7, 10), Rat(7, 10)>>,
     z |-> <<Rat(0, 1), Rat(1, 1)>>]

\* SafetyMonitor.__init__
SafetyInit(vel, ws) ==
    /\ enable_velocity_limits = vel
    /\ enable_workspace_limits = ws
    /\ max_linear_velocity = DefaultMaxLinearVelocity
    /\ max_angular_velocity = DefaultMaxAngularVelocity
    /\ max_joint_velocity = DefaultMaxJointVelocity
    /\ workspace_limits = DefaultWorkspaceLimits
    /\ violations = <<>>
    /\ emergency_stop_triggered = FALSE
    /\ safety_stop_sent = FALSE
    /\ collision_level = 3
    /\ config_error = "none"

\* implied velocity of each of the components lo..hi: |target - current| / dt
ImpliedVel(target, current, lo, hi) ==
    [i \in 1..(hi - lo + 1) |->
        RAbs(RDiv(RSub(target[lo + i - 1], current[lo + i - 1]), dt_assumed))]

\* a scaling that shrinks only the components that move fastest
Scaled_fastest_only(target, current, lo, hi, scale) ==
    LET vel == ImpliedVel(target, current, lo, hi)
    IN  [i \in 1..(hi - lo + 1) |->
            IF vel[i] = RMaxSeq(vel)
            THEN RAdd(current[lo + i - 1],
                      RMul(RSub(target[lo + i - 1], current[lo + i - 1]), scale))
            ELSE target[lo + i - 1]]

\* current + (target - current) * scale for the components lo..hi
Scaled(target, current, lo, hi, scale) ==
    [i \in 1..(hi - lo + 1) |->
        RAdd(current[lo + i - 1],
             RMul(RSub(target[lo + i - 1], current[lo + i - 1]), scale))]

\* a velocity check that takes an unreadable robot state for all zeros
_check_velocity_limits_from_zero(cmd, pose, joints, viol) ==
    LET target == Get(cmd, "target", <<>>)
        p0 == IF pose = <<>> THEN [i \in 1..6 |-> Zero] ELSE pose
        j0 == IF joints = <<>> THEN [i \in 1..Len(target) |-> Zero] ELSE joints
    IN
    IF Get(cmd, "type", "") = "cartesian" /\ Len(target) >= 6 /\ p0 # <<>>
    THEN
        LET linear_vel == ImpliedVel(target, p0, 1, 3)
            linOver == RGt(RMaxSeq(linear_vel), max_linear_velocity)
            linScale == RDiv(max_linear_velocity, RMaxSeq(linear_vel))
            t1 == IF linOver
                  THEN Scaled(target, p0, 1, 3, linScale)
                           \o SubSeq(target, 4, Len(target))
                  ELSE target
            v1 == IF linOver THEN Append(viol, "linear_velocity_exceeded") ELSE viol
            angular_vel == ImpliedVel(t1, p0, 4, 6)
            angOver == RGt(RMaxSeq(angular_vel), max_angular_velocity)
            angScale == RDiv(max_angular_velocity, RMaxSeq(angular_vel))
            t2 == IF angOver
                  THEN SubSeq(t1, 1, 3) \o Scaled(t1, p0, 4, 6, angScale)
                  ELSE t1
            v2 == IF angOver THEN Append(v1, "angular_velocity_exceeded") ELSE v1
        IN  [commands |-> [cmd EXCEPT !.target = t2], violations |-> v2]
    ELSE IF Get(cmd, "type", "") = "joint" /\ target # <<>> /\ j0 # <<>>
    THEN
        LET joint_vel == ImpliedVel(target, j0, 1, Len(target))
            over == RGt(RMaxSeq(joint_vel), max_joint_velocity)
            scale == RDiv(max_joint_velocity, RMaxSeq(joint_vel))
        IN  IF over
            THEN [commands |-> [cmd EXCEPT
                                  !.target = Scaled(target, j0, 1, Len(target), scale)],
                  violations |-> Append(viol, "joint_velocity_exceeded")]
            ELSE [commands |-> cmd, violations |-> viol]
    ELSE [commands |-> cmd, violations |-> viol]

\* SafetyMonitor._check_velocity_limits; pose and joints are what the robot
\* reports when asked (<<>> for None); the result is the command and the
\* violations list after the call
_check_velocity_limits(cmd, pose, joints, viol) ==
    LET target == Get(cmd, "target", <<>>)
    IN
    IF Get(cmd, "type", "") = "cartesian" /\ Len(target) >= 6 /\ pose # <<>>
    THEN
        LET linear_vel == ImpliedVel(target, pose, 1, 3)
            linOver == RGt(RMaxSeq(linear_vel), max_linear_velocity)
            linScale == RDiv(max_linear_velocity, RMaxSeq(linear_vel))
            t1 == IF linOver
                  THEN Scaled(target, pose, 1, 3, linScale)
                           \o SubSeq(target, 4, Len(target))
                  ELSE target
            v1 == IF linOver THEN Append(viol, "linear_velocity_exceeded") ELSE viol
            angular_vel == ImpliedVel(t1, pose, 4, 6)
            angOver == RGt(RMaxSeq(angular_vel), max_angular_velocity)
            angScale == RDiv(max_angular_velocity, RMaxSeq(angular_vel))
            t2 == IF angOver
                  THEN SubSeq(t1, 1, 3) \o Scaled(t1, pose, 4, 6, angScale)
                  ELSE t1
            v2 == IF angOver THEN Append(v1, "angular_velocity_exceeded") ELSE v1
        IN  [commands |-> [cmd EXCEPT !.target = t2], violations |-> v2]
    ELSE IF Get(cmd, "type", "") = "joint" /\ target # <<>> /\ joints # <<>>
    THEN
        LET joint_vel == ImpliedVel(target, joints, 1, Len(target))
            over == RGt(RMaxSeq(joint_vel), max_joint_velocity)
            scale == RDiv(max_joint_velocity, RMaxSeq(joint_vel))
        IN  IF over
            THEN [commands |-> [cmd EXCEPT
                                  !.target = Scaled(target, joints, 1, Len(target), scale)],
                  violations |-> Append(viol, "joint_velocity_exceeded")]
            ELSE [commands |-> cmd, violations |-> viol]
    ELSE [commands |-> cmd, violations |-> viol]

AxisNames == <<"x", "y", "z">>

\* a clip that forgets the lower bound
ClipAxis_upper_only(value, axis) ==
    LET max_val == workspace_limits[axis][2]
    IN  IF RGt(value, max_val)
        THEN [value |-> max_val, viol |-> <<axis \o "_max_exceeded">>]
        ELSE [value |-> value, viol |-> <<>>]

\* one axis of the workspace clip: the clipped value and the violation it names
ClipAxis(value, axis) ==
    LET min_val == workspace_limits[axis][1]
        max_val == workspace_limits[axis][2]
    IN  IF RLt(value, min_val)
        THEN [value |-> min_val, viol |-> <<axis \o "_min_exceeded">>]
        ELSE IF RGt(value, max_val)
        THEN [value |-> max_val, viol |-> <<axis \o "_max_exceeded">>]
        ELSE [value |-> value, viol |-> <<>>]

\* SafetyMonitor._check_workspace_limits
_check_workspace_limits(cmd, viol) ==
    LET target == Get(cmd, "target", <<>>)
    IN
    IF Get(cmd, "type", "") = "cartesian" /\ Len(target) >= 3
    THEN
        LET c == [i \in 1..3 |-> ClipAxis(target[i], AxisNames[i])]
        IN  [commands |-> [cmd EXCEPT
                             !.target = [i \in 1..Len(target) |->
                                            IF i <= 3 THEN c[i].value ELSE target[i]]],
             violations |-> viol \o c[1].viol \o c[2].viol \o c[3].viol]
    ELSE [commands |-> cmd, violations |-> viol]

StopCommand == [type |-> "stop", reason |-> "emergency_stop"]

\* a check_commands whose latch holds for Cartesian commands only
check_commands_unlatched(cmd, pose, joints) ==
    IF emergency_stop_triggered /\ Get(cmd, "type", "") = "cartesian"
    THEN [commands |-> StopCommand, violations |-> <<>>]
    ELSE
        LET v == IF enable_velocity_limits
                 THEN _check_velocity_limits(cmd, pose, joints, <<>>)
                 ELSE [commands |-> cmd, violations |-> <<>>]
        IN  IF enable_workspace_limits
            THEN _check_workspace_limits(v.commands, v.violations)
            ELSE v

\* a check_commands that appends to the list the previous call left
check_commands_accumulates(cmd, pose, joints) ==
    IF emergency_stop_triggered
    THEN [commands |-> StopCommand, violations |-> violations]
    ELSE
        LET v == IF enable_velocity_limits
                 THEN _check_velocity_limits(cmd, pose, joints, violations)
                 ELSE [commands |-> cmd, violations |-> violations]
        IN  IF enable_workspace_limits
            THEN _check_workspace_limits(v.commands, v.violations)
            ELSE v

\* SafetyMonitor.check_commands: the returned command and the violations list
check_commands(cmd, pose, joints) ==
    IF emergency_stop_triggered
    THEN [commands |-> StopCommand, violations |-> <<>>]
    ELSE
        LET v == IF enable_velocity_limits
                 THEN _check_velocity_limits(cmd, pose, joints, <<>>)
                 ELSE [commands |-> cmd, violations |-> <<>>]
        IN  IF enable_workspace_limits
            THEN _check_workspace_limits(v.commands, v.violations)
            ELSE v

(***************************************************************************)
(* RobotController: the calls that reach the arm.  A call is logged with   *)
(* the robot state its target was computed from (current) and with the     *)
(* value of the safety latch at the moment of the call (latched).          *)
(***************************************************************************)
\* ROBOT_MODELS["RM65"]
dof == 6
default_joints == <<Rat(0, 1), Rat(20, 1), Rat(70, 1), Rat(0, 1), Rat(90, 1), Rat(0, 1)>>

Call(op, target, velocity, block, current, by) ==
    [op |-> op, target |-> target, velocity |-> velocity, block |-> block,
     current |-> current, by |-> by, latched |-> emergency_stop_triggered]

\* RobotController.movej: a target of the wrong length is refused (-1)
movej(log, joint_angles, velocity, block, current, by) ==
    IF Len(joint_angles) # dof
    THEN log
    ELSE Append(log, Call("movej", joint_angles, velocity, block, current, by))

\* a movel that is sent a second time
movel_retried(log, pose, velocity, block, current, by) ==
    Append(Append(log, Call("movel", pose, velocity, block, current, by)),
           Call("movel", pose, velocity, block, current, by))

\* RobotController.movel
movel(log, pose, velocity, block, current, by) ==
    Append(log, Call("movel", pose, velocity, block, current, by))

\* RobotController.stop
stop(log, by) == Append(log, Call("stop", <<>>, 0, FALSE, <<>>, by))

\* RobotController.move_to_home: a blocking movej at velocity 20
move_to_home(log) == movej(log, default_joints, 20, TRUE, <<>>, "move_to_home")

IsMotion(c) == c.op \in {"movej", "movel"}

(***************************************************************************)
(* KeyboardTeleop, terminal mode                                           *)
(***************************************************************************)
Zero3 == <<Zero, Zero, Zero>>

\* the fresh input_state of KeyboardTeleop.read_input
KeyboardInputState ==
    [linear |-> Zero3, angular |-> Zero3,
     joint_deltas |-> [i \in 1..dof |-> Zero],
     enable |-> FALSE, emergency_stop |-> FALSE, mode_switch |-> FALSE,
     speed_change |-> 0, go_home |-> FALSE]

\* TERMINAL_KEY_MAP restricted to the movement keys, with the direction
\* _read_terminal_input passes to _terminal_direct_move: pose index and sign
TerminalDirection ==
    [w |-> <<1, 1>>, s |-> <<1, -1>>, a |-> <<2, 1>>, d |-> <<2, -1>>,
     q |-> <<3, 1>>, e |-> <<3, -1>>, i |-> <<4, 1>>, k |-> <<4, -1>>,
     j |-> <<5, 1>>, l |-> <<5, -1>>, u |-> <<6, 1>>, o |-> <<6, -1>>]

\* KeyboardTeleop._terminal_direct_move: 1 cm or 0.005 rad per key press,
\* sent straight to the robot
_terminal_direct_move(log, direction, pose) ==
    IF pose = <<>>
    THEN log
    ELSE
        LET increment == Rat(1, 100)
            step == IF direction[1] <= 3 THEN increment ELSE RMul(increment, Rat(1, 2))
            delta == IF direction[2] > 0 THEN step ELSE RNeg(step)
            target_pose == [pose EXCEPT ![direction[1]] = RAdd(@, delta)]
        IN  movel(log, target_pose, 30, FALSE, pose, "_terminal_direct_move")

\* a min that never takes the bound
RMin_unbounded(a, b) == a

RMin(a, b) == IF RLe(a, b) THEN a ELSE b
RMax(a, b) == IF RLe(a, b) THEN b ELSE a

\* KeyboardTeleop._read_terminal_input for the key read this tick ("None" when
\* no key arrived within the timeout); pose is what the robot reports if asked
_read_terminal_input(key, pose) ==
    LET unchanged == [input_state |-> KeyboardInputState,
                      toggle_enable |-> toggle_enable,
                      linear_speed |-> linear_speed,
                      angular_speed |-> angular_speed,
                      calls |-> calls, raised |-> FALSE]
    IN
    IF key = "None"
    THEN [unchanged EXCEPT !.input_state.enable = toggle_enable]
    ELSE IF key \in {"x", "ESC"}
    THEN [unchanged EXCEPT !.input_state.emergency_stop = TRUE]
    ELSE IF key = " "
    THEN [unchanged EXCEPT !.toggle_enable = ~toggle_enable,
                           !.input_state.enable = ~toggle_enable]
    ELSE IF key \in {"g", "f", "v"}
    THEN \* robot.gripper_open / gripper_close / gripper_set_position:
         \* RobotController has no such attribute, AttributeError
         [unchanged EXCEPT !.raised = TRUE]
    ELSE
        LET speed == IF key \in {"+", "="}
                     THEN RMin(RAdd(linear_speed, Rat(1, 100)), Rat(1, 2))
                     ELSE IF key \in {"-", "_"}
                     THEN RMax(RSub(linear_speed, Rat(1, 100)), Rat(1, 100))
                     ELSE linear_speed
            sped == key \in {"+", "=", "-", "_"}
            log == IF toggle_enable /\ key \in DOMAIN TerminalDirection
                   THEN _terminal_direct_move(calls, TerminalDirection[key], pose)
                   ELSE calls
        IN  [input_state |-> [KeyboardInputState EXCEPT
                                !.go_home = (key = "h"),
                                !.enable = toggle_enable],
             toggle_enable |-> toggle_enable,
             linear_speed |-> speed,
             angular_speed |-> IF sped THEN RMul(speed, Rat(3, 1)) ELSE angular_speed,
             calls |-> log, raised |-> FALSE]

(***************************************************************************)
(* KeyboardTeleop, pygame mode.  K is the set of keys held (and "QUIT" for *)
(* a window-close event) when the tick reads the keyboard.                 *)
(***************************************************************************)
Actions == {"mode_switch", "gripper_open", "gripper_close", "gripper_half"}

\* the keys DEFAULT_KEY_MAP binds to the gripper actions, in dict order
GripperKeys == <<"g", "f", "v">>
GripperActions == <<"gripper_open", "gripper_close", "gripper_half">>

\* value of a two-key axis: the key later in DEFAULT_KEY_MAP overwrites
KeyAxis(K, pos, neg, speed) ==
    IF neg \in K THEN RNeg(speed) ELSE IF pos \in K THEN speed ELSE Zero

\* KeyboardTeleop._read_pygame_input: the input state returned, the
\* _<action>_pressed attributes afterwards, and whether the call raised
_read_pygame_input(K) ==
    LET fresh(a, key) == key \in K /\ pressed[a] = "unset"
        \* the loop over key_map: TAB comes before g, f, v
        afterTab == IF fresh("mode_switch", "TAB")
                    THEN [pressed EXCEPT !["mode_switch"] = "True"]
                    ELSE pressed
        firing == {n \in 1..3 : fresh(GripperActions[n], GripperKeys[n])}
    IN
    IF firing # {}
    THEN \* the first gripper branch taken sets its flag and then raises:
         \* RobotController has no gripper_open / gripper_close /
         \* gripper_set_position, and KeyboardTeleop has no self.logger
         LET n == CHOOSE m \in firing : \A o \in firing : m <= o
         IN  [input_state |-> KeyboardInputState,
              pressed |-> [afterTab EXCEPT ![GripperActions[n]] = "True"],
              fired |-> {GripperActions[n]},
              raised |-> TRUE]
    ELSE
        [input_state |->
            [linear |-> <<KeyAxis(K, "w", "s", linear_speed),
                          KeyAxis(K, "a", "d", linear_speed),
                          KeyAxis(K, "q", "e", linear_speed)>>,
             angular |-> <<KeyAxis(K, "i", "k", angular_speed),
                           KeyAxis(K, "j", "l", angular_speed),
                           KeyAxis(K, "u", "o", angular_speed)>>,
             joint_deltas |-> [n \in 1..dof |->
                                 IF ToString(n) \in K THEN RNeg(joint_speed) ELSE Zero],
             enable |-> ("LSHIFT" \in K \/ "RSHIFT" \in K),
             emergency_stop |-> ("SPACE" \in K \/ "QUIT" \in K),
             mode_switch |-> fresh("mode_switch", "TAB"),
             speed_change |-> IF "MINUS" \in K THEN -1
                              ELSE IF "EQUALS" \in K THEN 1 ELSE 0,
             go_home |-> ("h" \in K)],
         \* the flags are reset for the keys that are not held
         pressed |-> [a \in Actions |->
                        LET key == IF a = "mode_switch" THEN "TAB"
                                   ELSE IF a = "gripper_open" THEN "g"
                                   ELSE IF a = "gripper_close" THEN "f" ELSE "v"
                        IN  IF key \notin K THEN "False" ELSE afterTab[a]],
         fired |-> {},
         raised |-> FALSE]

\* seconds per tick: 1 / update_rate, lowered to 15 Hz in terminal mode
update_period == IF source = "terminal" THEN Rat(1, 15) ELSE Rat(1, 100)

\* KeyboardTeleop.process_input
Keyboard_process_input(inp) ==
    LET new_mode == IF inp.mode_switch
                    THEN (IF mode = "cartesian" THEN "joint" ELSE "cartesian")
                    ELSE mode
        factor == IF inp.speed_change > 0 THEN Rat(11, 10) ELSE Rat(9, 10)
        sp(v) == IF inp.speed_change # 0 THEN RMul(v, factor) ELSE v
    IN  [commands |->
            [type |-> mode,     \* read before the mode switch is handled
             velocity |-> IF inp.go_home THEN [i \in 1..6 |-> Zero]
                          ELSE IF new_mode = "cartesian"
                          THEN inp.linear \o inp.angular
                          ELSE inp.joint_deltas,
             stop |-> FALSE,
             home |-> inp.go_home],
         mode |-> new_mode,
         linear_speed |-> sp(linear_speed),
         angular_speed |-> sp(angular_speed),
         joint_speed |-> sp(joint_speed),
         pressed |-> pressed,
         turbo_active |-> turbo_active,
         fired |-> IF inp.mode_switch THEN {"mode_switch"} ELSE {},
         raised |-> FALSE]

\* a send_commands that takes an absent pose or absent joint angles for zeros
send_commands_zero_state(cmd, pose, joints) ==
    LET p0 == IF pose = <<>> THEN [i \in 1..6 |-> Zero] ELSE pose
        j0 == IF joints = <<>> THEN [i \in 1..dof |-> Zero] ELSE joints
    IN  IF "home" \notin DOMAIN cmd
        THEN calls
        ELSE IF cmd.home
        THEN move_to_home(calls)
        ELSE IF cmd.stop
        THEN stop(calls, "send_commands")
        ELSE IF \E i \in DOMAIN cmd.velocity : cmd.velocity[i] # Zero
        THEN
            IF cmd.type = "cartesian"
            THEN movel(calls,
                       [i \in 1..6 |->
                           RAdd(p0[i], RMul(cmd.velocity[i], update_period))],
                       50, FALSE, p0, "send_commands")
            ELSE movej(calls,
                       [i \in 1..Len(j0) |->
                           RAdd(j0[i], RMul(cmd.velocity[i], update_period))],
                       50, FALSE, j0, "send_commands")
        ELSE calls

\* KeyboardTeleop.send_commands and JoystickTeleop.send_commands (the same
\* code): the backend log afterwards.  A command without the 'home' key (the
\* stop command of the safety monitor) raises KeyError, which is caught.
send_commands(cmd, pose, joints) ==
    IF "home" \notin DOMAIN cmd
    THEN calls
    ELSE IF cmd.home
    THEN move_to_home(calls)
    ELSE IF cmd.stop
    THEN stop(calls, "send_commands")
    ELSE IF \E i \in DOMAIN cmd.velocity : cmd.velocity[i] # Zero
    THEN
        IF cmd.type = "cartesian"
        THEN IF pose # <<>> /\ Len(cmd.velocity) >= 6
             THEN movel(calls,
                        [i \in 1..6 |->
                            RAdd(pose[i], RMul(cmd.velocity[i], update_period))],
                        50, FALSE, pose, "send_commands")
             ELSE calls
        ELSE IF joints # <<>> /\ Len(cmd.velocity) >= Len(joints)
             THEN movej(calls,
                        [i \in 1..Len(joints) |->
                            RAdd(joints[i], RMul(cmd.velocity[i], update_period))],
                        50, FALSE, joints, "send_commands")
             ELSE calls
    ELSE calls

\* send_commands asked the robot for its pose or joint angles and got None
state_missing(cmd, pose, joints) ==
    /\ "home" \in DOMAIN cmd
    /\ ~cmd.home
    /\ ~cmd.stop
    /\ \E i \in DOMAIN cmd.velocity : cmd.velocity[i] # Zero
    /\ IF cmd.type = "cartesian" THEN pose = <<>> ELSE joints = <<>>

(***************************************************************************)
(* JoystickTeleop.  K holds the names of the buttons held (by the action   *)
(* the button map gives them) and, for a deflected axis, the axis name     *)
(* followed by "+" (raw value 1), "-" (raw value -1) or "~" (raw value     *)
(* 1/20, inside the deadzone).                                             *)
(***************************************************************************)
deadzone == Rat(1, 10)
normal_speed == Rat(1, 10)
turbo_speed == Rat(3, 10)

\* the actions of the button map: DEFAULT_BUTTON_MAP, and the gripper actions
\* of a button_map that binds them (constructor argument)
ButtonActions == {"enable", "turbo", "emergency_stop", "mode_switch", "home",
                  "gripper_open", "gripper_close", "gripper_half"}

\* joystick.get_axis for the axis the axis map gives this name
RawAxis(K, name) ==
    IF (name \o "+") \in K THEN Rat(1, 1)
    ELSE IF (name \o "-") \in K THEN Rat(-1, 1)
    ELSE IF (name \o "~") \in K THEN Rat(1, 20)
    ELSE Zero

\* read_axis inside JoystickTeleop.read_input
read_axis(K, name) ==
    LET value == RawAxis(K, name)
    IN  IF RGt(RAbs(value), deadzone) THEN value ELSE Zero

\* JoystickTeleop.read_input
Joystick_read_input(K) ==
    [linear |-> <<read_axis(K, "linear_x"), read_axis(K, "linear_y"),
                  read_axis(K, "linear_z")>>,
     angular |-> <<read_axis(K, "angular_x"), read_axis(K, "angular_y"),
                   read_axis(K, "angular_z")>>,
     enable |-> "enable" \in K,
     turbo |-> "turbo" \in K,
     emergency_stop |-> "emergency_stop" \in K,
     mode_switch |-> "mode_switch" \in K,
     home |-> "home" \in K,
     gripper_open |-> "gripper_open" \in K,
     gripper_close |-> "gripper_close" \in K,
     gripper_half |-> "gripper_half" \in K]

\* one 'if input_state[action]: if not hasattr(...) ... else: flag = False'
\* block of JoystickTeleop.process_input: the flag afterwards
Latch(flag, held) ==
    IF held THEN (IF flag = "unset" THEN "True" ELSE flag) ELSE "False"

\* JoystickTeleop.process_input
Joystick_process_input(inp) ==
    LET msFires == inp.mode_switch /\ pressed["mode_switch"] = "unset"
        new_mode == IF msFires
                    THEN (IF mode = "cartesian" THEN "joint" ELSE "cartesian")
                    ELSE mode
        p0 == [pressed EXCEPT !["mode_switch"] = Latch(@, inp.mode_switch)]
        speed_multiplier == IF inp.turbo THEN turbo_speed ELSE normal_speed
        base == [commands |-> [type |-> mode, velocity |-> [i \in 1..6 |-> Zero],
                               stop |-> FALSE, home |-> FALSE],
                 mode |-> new_mode,
                 linear_speed |-> linear_speed,
                 angular_speed |-> angular_speed,
                 joint_speed |-> joint_speed,
                 pressed |-> p0,
                 turbo_active |-> inp.turbo,
                 fired |-> IF msFires THEN {"mode_switch"} ELSE {},
                 raised |-> FALSE]
        \* the gripper blocks in order; the first that fires raises, because
        \* RobotController has no gripper_open / gripper_close /
        \* gripper_set_position
        firing == {n \in 1..3 : inp[GripperActions[n]]
                                /\ pressed[GripperActions[n]] = "unset"}
        first == CHOOSE m \in firing : \A o \in firing : m <= o
    IN
    IF inp.home
    THEN [base EXCEPT !.commands.home = TRUE]
    ELSE IF firing # {}
    THEN [base EXCEPT
            !.pressed = [a \in Actions |->
                           IF a = "mode_switch" THEN p0[a]
                           ELSE LET n == CHOOSE m \in 1..3 : GripperActions[m] = a
                                IN  IF n < first THEN Latch(pressed[a], inp[a])
                                    ELSE IF n = first THEN "True"
                                    ELSE pressed[a]],
            !.fired = @ \cup {GripperActions[first]},
            !.raised = TRUE]
    ELSE [base EXCEPT
            !.pressed = [a \in Actions |->
                           IF a = "mode_switch" THEN p0[a]
                           ELSE Latch(pressed[a], inp[a])],
            !.commands.velocity =
                [i \in 1..6 |->
                    RMul((inp.linear \o inp.angular)[i], speed_multiplier)]]

(***************************************************************************)
(* TeleopBase                                                              *)
(***************************************************************************)
\* TeleopBase.enable
enable(log) == [enabled |-> TRUE, running |-> running, calls |-> log]

\* a disable that stops the robot whether or not it was enabled
disable_always_stops(log) ==
    [enabled |-> FALSE, running |-> running, calls |-> stop(log, "disable")]

\* TeleopBase.disable: stops the robot when it was enabled
disable(log) ==
    IF enabled
    THEN [enabled |-> FALSE, running |-> running, calls |-> stop(log, "disable")]
    ELSE [enabled |-> enabled, running |-> running, calls |-> log]

\* an emergency_stop that leaves the stop to disable()
emergency_stop_by_disable(log) ==
    [disable(log) EXCEPT !.running = FALSE]

\* TeleopBase.emergency_stop
emergency_stop(log) ==
    [disable(stop(log, "emergency_stop")) EXCEPT !.running = FALSE]

\* a run loop that goes on to process_input whatever the deadman update gave
deadman_ungated(inp, log) ==
    IF Get(inp, "emergency_stop", FALSE)
    THEN [step |-> emergency_stop(log), next |-> "finally"]
    ELSE IF Get(inp, "enable", FALSE)
    THEN [step |-> enable(log), next |-> "process"]
    ELSE [step |-> [enabled |-> FALSE, running |-> running,
                    calls |-> IF enabled THEN stop(log, "disable") ELSE log],
          next |-> "process"]

\* a run loop whose deadman latches: once enabled, a released input leaves the
\* session enabled
deadman_latching(inp, log) ==
    IF Get(inp, "emergency_stop", FALSE)
    THEN [step |-> emergency_stop(log), next |-> "finally"]
    ELSE IF Get(inp, "enable", FALSE)
    THEN [step |-> enable(log), next |-> "process"]
    ELSE [step |-> [enabled |-> enabled, running |-> running, calls |-> log],
          next |-> IF enabled THEN "process" ELSE "sleep"]

\* the deadman part of TeleopBase.run: emergency stop, else enable / disable
\* and where the loop goes from there: out of the loop, on to process_input,
\* or straight to the sleep that ends the tick
deadman(inp, log) ==
    IF Get(inp, "emergency_stop", FALSE)
    THEN [step |-> emergency_stop(log), next |-> "finally"]
    ELSE IF Get(inp, "enable", FALSE)
    THEN [step |-> enable(log), next |-> "process"]
    ELSE [step |-> disable(log), next |-> "sleep"]

(***************************************************************************)
(* The operator and the robot                                              *)
(***************************************************************************)
\* most inputs held at once besides the deadman input
MaxKeys == 2
\* most ticks of a session on which a speed key is held
MaxSpeedChanges == 1

Sources == {"pygame", "terminal", "joystick"}

\* the inputs the operator uses, per input source
Repertoire(src) ==
    IF src = "pygame"
    THEN {"LSHIFT", "SPACE", "TAB", "h", "g", "f", "v", "EQUALS", "MINUS", "w", "1"}
    ELSE IF src = "terminal"
    THEN {"x", " ", "h", "g", "+", "-", "w", "e", "i"}
    ELSE {"enable", "turbo", "emergency_stop", "mode_switch", "home",
          "gripper_open", "gripper_close", "gripper_half",
          "linear_x+", "linear_x~", "angular_z-"}

DeadmanInputs == {"LSHIFT", "RSHIFT", "enable"}
SpeedInputs == {"EQUALS", "MINUS", "+", "=", "-", "_"}

\* what the operator may hold during one tick; the terminal delivers at most
\* one character per tick
Inputs ==
    {K \in SUBSET allowed :
        /\ Cardinality(K \ DeadmanInputs) <= MaxKeys
        /\ source = "terminal" => Cardinality(K) <= 1
        /\ K \cap SpeedInputs # {} => nSpeedKeys < MaxSpeedChanges}

\* what get_current_pose() may return during a session: None, a pose in the
\* middle of the workspace, a pose on its x boundary
SessionPoses ==
    {<<>>,
     <<Milli(300), Zero, Milli(500), Zero, Zero, Zero>>,
     <<Milli(700), Zero, Milli(500), Zero, Zero, Zero>>}

\* what get_current_joint_angles() may return during a session
SessionJoints == {<<>>, default_joints}

None == [type |-> "none"]

\* the key or button of a toggle-style action
ActionKey(src, a) ==
    IF src = "pygame"
    THEN (IF a = "mode_switch" THEN "TAB"
          ELSE IF a = "gripper_open" THEN "g"
          ELSE IF a = "gripper_close" THEN "f" ELSE "v")
    ELSE a

Min(a, b) == IF a <= b THEN a ELSE b

NotWatching == [action |-> "none", clean |-> FALSE, held |-> FALSE,
                holdFires |-> 0, presses |-> 0, fires |-> 0]

\* The observer of one toggle-style action, at the end of a tick on which K
\* was held, the session was enabled (en) and the actions F fired.  It counts
\* presses (rising edges) and firings while every tick so far was an enabled
\* one, and gives up at the first tick that was not, or at a third press.
Observe(w, K, en, F) ==
    IF w.action = "none" \/ ~w.clean
    THEN w
    ELSE
        LET h == ActionKey(source, w.action) \in K
            f == IF w.action \in F THEN 1 ELSE 0
        IN  IF ~en \/ (h /\ ~w.held /\ w.presses = 2)
            THEN [NotWatching EXCEPT !.action = w.action]
            ELSE IF ~h
            THEN [w EXCEPT !.held = FALSE, !.holdFires = 0]
            ELSE IF ~w.held
            THEN [w EXCEPT !.held = TRUE, !.holdFires = f,
                           !.presses = @ + 1, !.fires = @ + f]
            ELSE [w EXCEPT !.holdFires = Min(@ + f, 2), !.fires = Min(@ + f, 3)]

\* an arm that accepts every move: rm_movej / rm_movel return 0
Accepting == [rejects |-> FALSE, status |-> 0]

\* the status codes rm_movej / rm_movel may return: 0, or 1 from an arm that
\* rejects
StatusCodes == IF backend.rejects THEN {0, 1} ELSE {0}

\* the arm motion commands in a log of backend calls
Motions(log) == {i \in DOMAIN log : IsMotion(log[i])}

\* the backend after a step that extended this tick's log to log, when the
\* move it issued, if any, returned st
Returned(log, st) ==
    IF Cardinality(Motions(log)) > Cardinality(Motions(calls))
    THEN [backend EXCEPT !.status = st]
    ELSE backend

(***************************************************************************)
(* A session: TeleopBase.run, one action per step of the loop              *)
(***************************************************************************)
NoTick ==
    /\ keys' = {}
    /\ input_state' = None
    /\ commands' = None
    /\ calls' = <<>>
    /\ fired' = {}
    /\ missing' = FALSE

\* KeyboardTeleop.__init__ / JoystickTeleop.__init__ (TeleopBase.__init__
\* builds the SafetyMonitor with its defaults: enable_safety is never passed)
SessionInit(src) ==
    /\ source = src
    /\ pc = "idle"
    /\ exitBy = "none"
    /\ running = FALSE
    /\ enabled = FALSE
    /\ toggle_enable = FALSE
    /\ mode = "cartesian"
    /\ pressed = [a \in Actions |-> "unset"]
    /\ linear_speed = Rat(1, 10)
    /\ angular_speed = Rat(3, 10)
    /\ joint_speed = Rat(5, 1)
    /\ turbo_active = FALSE
    /\ cleanups = 0
    /\ keys = {}
    /\ input_state = None
    /\ commands = None
    /\ calls = <<>>
    /\ fired = {}
    /\ prevEnabled = FALSE
    /\ latchedAtRead = FALSE
    /\ missing = FALSE
    /\ nSpeedKeys = 0
    /\ spaceOdd = FALSE

\* compute_command has not been called
NoControl == [kind |-> "none"]

NoCaller ==
    /\ cmdIn = None
    /\ poseRead = <<>>
    /\ jointsRead = <<>>
    /\ result = None
    /\ armed = FALSE
    /\ nChecked = 0
    /\ nStopped = 0

Init ==
    /\ \E src \in Sources :
        /\ SessionInit(src)
        /\ allowed = Repertoire(src)
    /\ SafetyInit(TRUE, TRUE)
    /\ NoCaller
    /\ control = NoControl
    /\ watch = NotWatching
    /\ backend = Accepting

\* a run that sets the running flag before it calls setup()
Setup_running_first ==
    /\ pc = "idle"
    /\ running' = TRUE
    /\ \E ok \in BOOLEAN :
        IF ok
        THEN pc' = "loop" /\ exitBy' = exitBy
        ELSE pc' = "returned" /\ exitBy' = "setup_failed"
    /\ UNCHANGED <<source, enabled, toggle_enable, mode, pressed, linear_speed,
                   angular_speed, joint_speed, turbo_active, cleanups>>
    /\ UNCHANGED <<safetyVars, callerVars, tickVars, envVars>>

\* run(): setup() succeeds and the loop is entered, or fails and run returns
Setup ==
    /\ pc = "idle"
    /\ \E ok \in BOOLEAN :
        IF ok
        THEN running' = TRUE /\ pc' = "loop" /\ exitBy' = exitBy
        ELSE running' = running /\ pc' = "returned" /\ exitBy' = "setup_failed"
    /\ UNCHANGED <<source, enabled, toggle_enable, mode, pressed, linear_speed,
                   angular_speed, joint_speed, turbo_active, cleanups>>
    /\ UNCHANGED <<safetyVars, callerVars, tickVars, envVars>>

\* while self.running
LoopTest ==
    /\ pc = "loop"
    /\ IF running
       THEN pc' = "read" /\ exitBy' = exitBy
       ELSE pc' = "finally" /\ exitBy' = "stopped"
    /\ UNCHANGED <<source, running, enabled, toggle_enable, mode, pressed,
                   linear_speed, angular_speed, joint_speed, turbo_active, cleanups>>
    /\ UNCHANGED <<safetyVars, callerVars, tickVars, envVars>>

\* the read_input of the session's input source, for the inputs K
read_input(K, pose) ==
    IF source = "terminal"
    THEN LET r == _read_terminal_input(IF K = {} THEN "None" ELSE CHOOSE k \in K : TRUE,
                                       pose)
         IN  [input_state |-> r.input_state, toggle_enable |-> r.toggle_enable,
              linear_speed |-> r.linear_speed, angular_speed |-> r.angular_speed,
              calls |-> r.calls, pressed |-> pressed, fired |-> {},
              raised |-> r.raised]
    ELSE IF source = "pygame"
    THEN LET r == _read_pygame_input(K)
         IN  [input_state |-> r.input_state, toggle_enable |-> toggle_enable,
              linear_speed |-> linear_speed, angular_speed |-> angular_speed,
              calls |-> calls, pressed |-> r.pressed, fired |-> r.fired,
              raised |-> r.raised]
    ELSE [input_state |-> Joystick_read_input(K), toggle_enable |-> toggle_enable,
          linear_speed |-> linear_speed, angular_speed |-> angular_speed,
          calls |-> calls, pressed |-> pressed, fired |-> {}, raised |-> FALSE]

\* input_state = self.read_input(); an exception leaves the loop
ReadInput ==
    /\ pc = "read"
    /\ \E K \in Inputs, pose \in SessionPoses, st \in StatusCodes :
        LET r == read_input(K, pose)
        IN  /\ keys' = K
            /\ backend' = Returned(r.calls, st)
            /\ missing' = (/\ source = "terminal"
                            /\ toggle_enable
                            /\ K \cap DOMAIN TerminalDirection # {}
                            /\ pose = <<>>)
            /\ nSpeedKeys' = IF K \cap SpeedInputs # {} THEN nSpeedKeys + 1
                             ELSE nSpeedKeys
            /\ spaceOdd' = IF source = "terminal" /\ " " \in K THEN ~spaceOdd
                           ELSE spaceOdd
            /\ toggle_enable' = r.toggle_enable
            /\ linear_speed' = r.linear_speed
            /\ angular_speed' = r.angular_speed
            /\ calls' = r.calls
            /\ pressed' = r.pressed
            /\ fired' = r.fired
            /\ IF r.raised
               THEN /\ pc' = "finally"
                    /\ exitBy' = "exception"
                    /\ input_state' = None
                    /\ watch' = Observe(watch, K, K \cap DeadmanInputs # {}, r.fired)
               ELSE /\ pc' = "deadman"
                    /\ exitBy' = exitBy
                    /\ input_state' = r.input_state
                    /\ watch' = watch
    /\ prevEnabled' = enabled
    /\ latchedAtRead' = emergency_stop_triggered
    /\ UNCHANGED <<source, running, enabled, mode, joint_speed, turbo_active,
                   cleanups, commands, allowed>>
    /\ UNCHANGED <<safetyVars, callerVars>>

\* the emergency-stop check and the deadman switch
Deadman ==
    /\ pc = "deadman"
    /\ LET r == deadman(input_state, calls)
       IN  /\ enabled' = r.step.enabled
           /\ running' = r.step.running
           /\ calls' = r.step.calls
           /\ pc' = r.next
           /\ exitBy' = IF r.next = "finally" THEN "emergency_stop" ELSE exitBy
    /\ UNCHANGED <<source, toggle_enable, mode, pressed, linear_speed,
                   angular_speed, joint_speed, turbo_active, cleanups>>
    /\ UNCHANGED <<keys, input_state, commands, fired, prevEnabled, latchedAtRead,
                   missing>>
    /\ UNCHANGED <<safetyVars, callerVars, envVars>>

\* the process_input of the session's input source
process_input(inp) ==
    IF source = "joystick"
    THEN Joystick_process_input(inp)
    ELSE Keyboard_process_input(inp)

\* commands = self.process_input(input_state); an exception leaves the loop
Process ==
    /\ pc = "process"
    /\ LET r == process_input(input_state)
       IN  /\ mode' = r.mode
           /\ linear_speed' = r.linear_speed
           /\ angular_speed' = r.angular_speed
           /\ joint_speed' = r.joint_speed
           /\ pressed' = r.pressed
           /\ turbo_active' = r.turbo_active
           /\ fired' = fired \cup r.fired
           /\ IF r.raised
              THEN /\ pc' = "finally"
                   /\ exitBy' = "exception"
                   /\ commands' = None
                   /\ watch' = Observe(watch, keys, enabled, fired \cup r.fired)
              ELSE /\ pc' = "check"
                   /\ exitBy' = exitBy
                   /\ commands' = r.commands
                   /\ watch' = watch
    /\ UNCHANGED <<source, running, enabled, toggle_enable, cleanups>>
    /\ UNCHANGED <<keys, input_state, calls, prevEnabled, latchedAtRead, missing, allowed,
                   nSpeedKeys, spaceOdd, backend>>
    /\ UNCHANGED <<safetyVars, callerVars>>

\* commands = self.safety.check_commands(commands)
Check ==
    /\ pc = "check"
    /\ \E pose \in SessionPoses, joints \in SessionJoints :
        LET r == check_commands(commands, pose, joints)
        IN  /\ commands' = r.commands
            /\ violations' = r.violations
    /\ pc' = "send"
    /\ UNCHANGED <<collision_level, config_error>>
    /\ UNCHANGED <<enable_velocity_limits, enable_workspace_limits,
                   max_linear_velocity, max_angular_velocity, max_joint_velocity,
                   workspace_limits, emergency_stop_triggered, safety_stop_sent>>
    /\ UNCHANGED <<source, exitBy, running, enabled, toggle_enable, mode, pressed,
                   linear_speed, angular_speed, joint_speed, turbo_active, cleanups>>
    /\ UNCHANGED <<keys, input_state, calls, fired, prevEnabled, latchedAtRead,
                   missing>>
    /\ UNCHANGED <<callerVars, envVars>>

\* self.send_commands(commands)
Send ==
    /\ pc = "send"
    /\ \E pose \in SessionPoses, joints \in SessionJoints, st \in StatusCodes :
        /\ calls' = send_commands(commands, pose, joints)
        /\ backend' = Returned(send_commands(commands, pose, joints), st)
        /\ missing' = (missing \/ state_missing(commands, pose, joints))
    /\ pc' = "sleep"
    /\ UNCHANGED <<source, exitBy, running, enabled, toggle_enable, mode, pressed,
                   linear_speed, angular_speed, joint_speed, turbo_active, cleanups>>
    /\ UNCHANGED <<keys, input_state, commands, fired, prevEnabled, latchedAtRead>>
    /\ UNCHANGED <<safetyVars, callerVars, allowed, nSpeedKeys, spaceOdd, watch>>

\* the sleep that ends a tick
Sleep ==
    /\ pc = "sleep"
    /\ pc' = "loop"
    /\ watch' = Observe(watch, keys, enabled, fired)
    /\ backend' = [backend EXCEPT !.status = 0]
    /\ NoTick
    /\ prevEnabled' = enabled
    /\ latchedAtRead' = FALSE
    /\ UNCHANGED <<source, exitBy, running, enabled, toggle_enable, mode, pressed,
                   linear_speed, angular_speed, joint_speed, turbo_active, cleanups>>
    /\ UNCHANGED <<safetyVars, callerVars, allowed, nSpeedKeys, spaceOdd>>

\* a run whose cleanup() is the last statement of the try body, so that an
\* interrupted loop returns without it
Finally_in_try_body ==
    /\ pc = "finally"
    /\ pc' = "returned"
    /\ cleanups' = IF exitBy = "interrupt" THEN cleanups ELSE cleanups + 1
    /\ NoTick
    /\ prevEnabled' = enabled
    /\ latchedAtRead' = FALSE
    /\ UNCHANGED <<source, exitBy, running, enabled, toggle_enable, mode, pressed,
                   linear_speed, angular_speed, joint_speed, turbo_active>>
    /\ UNCHANGED <<safetyVars, callerVars, envVars>>

\* finally: self.cleanup()
Finally ==
    /\ pc = "finally"
    /\ pc' = "returned"
    /\ cleanups' = cleanups + 1
    /\ NoTick
    /\ prevEnabled' = enabled
    /\ latchedAtRead' = FALSE
    /\ UNCHANGED <<source, exitBy, running, enabled, toggle_enable, mode, pressed,
                   linear_speed, angular_speed, joint_speed, turbo_active>>
    /\ UNCHANGED <<safetyVars, callerVars, envVars>>

\* KeyboardInterrupt, delivered to the session thread anywhere in the loop:
\* the tick in progress is abandoned with what it has sent so far
Interrupt ==
    /\ pc \in {"loop", "read", "deadman", "process", "check", "send", "sleep"}
    /\ pc' = "finally"
    /\ exitBy' = "interrupt"
    /\ keys' = {}
    /\ input_state' = None
    /\ commands' = None
    /\ fired' = {}
    /\ UNCHANGED <<source, running, enabled, toggle_enable, mode, pressed,
                   linear_speed, angular_speed, joint_speed, turbo_active, cleanups>>
    /\ UNCHANGED <<calls, prevEnabled, latchedAtRead, missing>>
    /\ UNCHANGED <<safetyVars, callerVars, envVars>>

\* a stop() that breaks into the tick in progress
Stop_preempts ==
    /\ pc \notin {"idle", "returned"}
    /\ running
    /\ running' = FALSE
    /\ pc' = "finally"
    /\ exitBy' = "stopped"
    /\ UNCHANGED <<source, enabled, toggle_enable, mode, pressed,
                   linear_speed, angular_speed, joint_speed, turbo_active, cleanups>>
    /\ UNCHANGED <<safetyVars, callerVars, tickVars, envVars>>

\* TeleopBase.stop, called from outside the loop
Stop ==
    /\ pc \notin {"idle", "returned"}
    /\ running
    /\ running' = FALSE
    /\ UNCHANGED <<source, pc, exitBy, enabled, toggle_enable, mode, pressed,
                   linear_speed, angular_speed, joint_speed, turbo_active, cleanups>>
    /\ UNCHANGED <<safetyVars, callerVars, tickVars, envVars>>

\* SafetyMonitor.trigger_emergency_stop, called from any context
TriggerEmergencyStop ==
    /\ emergency_stop_triggered' = TRUE
    /\ safety_stop_sent' = TRUE
    /\ armed' = TRUE
    /\ nChecked' = 0
    /\ nStopped' = 0
    /\ UNCHANGED <<collision_level, config_error>>
    /\ UNCHANGED <<enable_velocity_limits, enable_workspace_limits,
                   max_linear_velocity, max_angular_velocity, max_joint_velocity,
                   workspace_limits, violations>>
    /\ UNCHANGED <<cmdIn, poseRead, jointsRead, result, control>>
    /\ UNCHANGED <<sessionVars, tickVars, envVars>>

\* a reset that also switches the deadman back on
ResetEmergencyStop_reenables ==
    /\ emergency_stop_triggered' = FALSE
    /\ violations' = <<>>
    /\ armed' = FALSE
    /\ nChecked' = 0
    /\ nStopped' = nStopped
    /\ latchedAtRead' = FALSE
    /\ enabled' = TRUE
    /\ UNCHANGED <<collision_level, config_error>>
    /\ UNCHANGED <<enable_velocity_limits, enable_workspace_limits,
                   max_linear_velocity, max_angular_velocity, max_joint_velocity,
                   workspace_limits, safety_stop_sent>>
    /\ UNCHANGED <<cmdIn, poseRead, jointsRead, result, control>>
    /\ UNCHANGED <<keys, input_state, commands, calls, fired, prevEnabled, missing>>
    /\ UNCHANGED <<source, pc, exitBy, running, toggle_enable, mode, pressed,
                   linear_speed, angular_speed, joint_speed, turbo_active, cleanups>>
    /\ UNCHANGED envVars

\* SafetyMonitor.reset_emergency_stop
ResetEmergencyStop ==
    /\ emergency_stop_triggered' = FALSE
    /\ violations' = <<>>
    /\ armed' = FALSE
    /\ nChecked' = 0
    /\ nStopped' = nStopped
    /\ latchedAtRead' = FALSE
    /\ UNCHANGED <<collision_level, config_error>>
    /\ UNCHANGED <<enable_velocity_limits, enable_workspace_limits,
                   max_linear_velocity, max_angular_velocity, max_joint_velocity,
                   workspace_limits, safety_stop_sent>>
    /\ UNCHANGED <<cmdIn, poseRead, jointsRead, result, control>>
    /\ UNCHANGED <<keys, input_state, commands, calls, fired, prevEnabled, missing>>
    /\ UNCHANGED <<sessionVars, envVars>>

Next ==
    \/ Setup
    \/ LoopTest
    \/ ReadInput
    \/ Deadman
    \/ Process
    \/ Check
    \/ Send
    \/ Sleep
    \/ Finally
    \/ Interrupt
    \/ Stop
    \/ TriggerEmergencyStop
    \/ ResetEmergencyStop

Spec == Init /\ [][Next]_vars

(***************************************************************************)
(* A direct caller of SafetyMonitor: check_commands as a pure function of  *)
(* the command, the two constructor flags, the latch and the robot state   *)
(* read during the check                                                   *)
(***************************************************************************)
\* largest number of steps a target lies from the robot state, per component
MaxStep == 1
\* most check_commands calls between two trigger/reset calls
MaxChecks == 2

\* robot poses: mid-workspace, 2 mm inside the x and y bounds, 20 mm below z
SafetyPoses ==
    {<<Milli(300), Zero, Milli(500), Zero, Zero, Zero>>,
     <<Milli(698), Milli(698), Milli(500), Zero, Zero, Zero>>,
     <<Milli(300), Zero, Milli(-20), Zero, Zero, Zero>>}

\* a pose k steps from base: 4 mm steps on x, 8 mm on y, 12 mrad about z
\* (the default limits allow 5 mm and 10 mrad per dt)
PoseTarget(base, k) ==
    <<RAdd(base[1], Milli(4 * k[1])), RAdd(base[2], Milli(8 * k[2])), base[3],
      base[4], base[5], RAdd(base[6], Milli(12 * k[3]))>>

\* joint angles k steps from base: 0.2 deg steps on joint 1, 0.4 deg on joint 2
\* (the default limit allows 0.3 deg per dt)
JointTarget(base, k) ==
    [i \in 1..dof |->
        IF i = 1 THEN RAdd(base[i], Rat(2 * k[1], 10))
        ELSE IF i = 2 THEN RAdd(base[i], Rat(4 * k[2], 10))
        ELSE base[i]]

Steps == (-MaxStep)..MaxStep

\* lengths of a Cartesian target: none, position only, a pose, and a pose with
\* a trailing element (the checks accept len(target) >= 3 and >= 6)
TargetLengths == {0, 3, 6, 7}

\* SafetyMonitor(robot, enable_velocity_limits, enable_workspace_limits), and
\* one command with the robot state its checks will read
CallerInit ==
    /\ \E vel \in BOOLEAN, ws \in BOOLEAN : SafetyInit(vel, ws)
    /\ \/ \E base \in SafetyPoses, k \in Steps \X Steps \X Steps, n \in TargetLengths :
            /\ k[3] = 0 \/ n >= 6
            /\ cmdIn = [type |-> "cartesian", velocity |-> 50,
                        target |-> SubSeq(PoseTarget(base, k) \o <<Zero>>, 1, n)]
            /\ poseRead \in {<<>>, base}
            /\ jointsRead = <<>>
       \/ \E k \in Steps \X Steps, n \in {0, dof} :
            /\ cmdIn = [type |-> "joint", velocity |-> 50,
                        target |-> SubSeq(JointTarget(default_joints, k), 1, n)]
            /\ poseRead = <<>>
            /\ jointsRead \in {<<>>, default_joints}
       \/ \E base \in SafetyPoses :
            /\ cmdIn = [type |-> "cartesian", velocity |-> [i \in 1..6 |-> Zero],
                        stop |-> FALSE, home |-> FALSE]
            /\ poseRead \in {<<>>, base}
            /\ jointsRead = <<>>
       \/ \* what JointControl.compute_command returns without joint angles
          /\ cmdIn = [type |-> "joint", target |-> <<>>]
          /\ poseRead = <<>>
          /\ jointsRead \in {<<>>, default_joints}
    /\ result = None
    /\ armed = FALSE
    /\ nChecked = 0
    /\ nStopped = 0
    /\ control = NoControl
    /\ SessionInit("none")
    /\ allowed = {}
    /\ watch = NotWatching
    /\ backend = Accepting

\* result = safety.check_commands(cmdIn)
SafetyCheck ==
    /\ nChecked < MaxChecks
    /\ LET r == check_commands(cmdIn, poseRead, jointsRead)
       IN  /\ result' = r.commands
           /\ violations' = r.violations
           /\ nStopped' = IF r.commands.type = "stop" THEN nStopped + 1 ELSE nStopped
    /\ nChecked' = nChecked + 1
    /\ UNCHANGED <<collision_level, config_error>>
    /\ UNCHANGED <<enable_velocity_limits, enable_workspace_limits,
                   max_linear_velocity, max_angular_velocity, max_joint_velocity,
                   workspace_limits, emergency_stop_triggered, safety_stop_sent>>
    /\ UNCHANGED <<cmdIn, poseRead, jointsRead, armed, control>>
    /\ UNCHANGED <<sessionVars, tickVars, envVars>>

SafetyNext ==
    \/ SafetyCheck
    \/ TriggerEmergencyStop
    \/ ResetEmergencyStop

SafetySpec == CallerInit /\ [][SafetyNext]_vars

(***************************************************************************)
(* ControlMode: a caller of JointControl / CartesianControl.compute_command *)
(* with one fixed robot state                                              *)
(***************************************************************************)
JointControlMaxVelocity == Rat(30, 1)
CartesianControlMaxLinear == Rat(1, 2)
CartesianControlMaxAngular == Rat(1, 1)

\* max(min(v, limit), -limit)
Clamp(v, limit) == RMax(RMin(v, limit), RNeg(limit))

\* a joint control that integrates from the target it returned last
JointControl_from_last_target(input_velocity, current_state) ==
    LET current_joints == Get(current_state, "joint_angles", <<>>)
        base == IF control.nCalls > 0 /\ control.out.target # <<>>
                THEN control.out.target ELSE current_joints
        dt == Get(current_state, "dt", Rat(1, 100))
    IN  IF current_joints = <<>>
        THEN [type |-> "joint", target |-> <<>>]
        ELSE [type |-> "joint",
              target |-> [i \in 1..Len(current_joints) |->
                            RAdd(base[i],
                                 RMul(Clamp(input_velocity[i], JointControlMaxVelocity),
                                      dt))],
              velocity |-> 50]

\* a joint control that takes absent joint angles for the home angles
JointControl_assumes_home(input_velocity, current_state) ==
    LET read == Get(current_state, "joint_angles", <<>>)
        current_joints == IF read = <<>> THEN default_joints ELSE read
        dt == Get(current_state, "dt", Rat(1, 100))
    IN  [type |-> "joint",
         target |-> [i \in 1..Len(current_joints) |->
                       RAdd(current_joints[i],
                            RMul(Clamp(input_velocity[i], JointControlMaxVelocity),
                                 dt))],
         velocity |-> 50]

\* JointControl.compute_command; absent joint angles (None or []) are <<>>
JointControl_compute_command(input_velocity, current_state) ==
    LET current_joints == Get(current_state, "joint_angles", <<>>)
        dt == Get(current_state, "dt", Rat(1, 100))
    IN  IF current_joints = <<>>
        THEN [type |-> "joint", target |-> <<>>]
        ELSE [type |-> "joint",
              target |-> [i \in 1..Len(current_joints) |->
                            RAdd(current_joints[i],
                                 RMul(Clamp(input_velocity[i], JointControlMaxVelocity),
                                      dt))],
              velocity |-> 50]

\* a Cartesian control that shrinks the linear and the angular part each by
\* one factor, limit / largest component, instead of clamping axis by axis
CartesianControl_proportional(input_velocity, current_state) ==
    LET current_pose == Get(current_state, "pose", <<>>)
        dt == Get(current_state, "dt", Rat(1, 100))
        largest(lo) == RMaxSeq([i \in 1..3 |-> RAbs(input_velocity[lo + i - 1])])
        limited(i) ==
            LET lo == IF i <= 3 THEN 1 ELSE 4
                limit == IF i <= 3 THEN CartesianControlMaxLinear
                         ELSE CartesianControlMaxAngular
            IN  IF RGt(largest(lo), limit)
                THEN RDiv(RMul(input_velocity[i], limit), largest(lo))
                ELSE input_velocity[i]
    IN  IF current_pose = <<>> \/ Len(current_pose) # 6
        THEN [type |-> "cartesian", target |-> <<>>]
        ELSE [type |-> "cartesian",
              target |-> [i \in 1..6 |-> RAdd(current_pose[i], RMul(limited(i), dt))],
              velocity |-> 50]

\* CartesianControl.compute_command
CartesianControl_compute_command(input_velocity, current_state) ==
    LET current_pose == Get(current_state, "pose", <<>>)
        dt == Get(current_state, "dt", Rat(1, 100))
    IN  IF current_pose = <<>> \/ Len(current_pose) # 6
        THEN [type |-> "cartesian", target |-> <<>>]
        ELSE [type |-> "cartesian",
              target |-> [i \in 1..6 |->
                            RAdd(current_pose[i],
                                 RMul(Clamp(input_velocity[i],
                                            IF i <= 3 THEN CartesianControlMaxLinear
                                            ELSE CartesianControlMaxAngular),
                                      dt))],
              velocity |-> 50]

compute_command(kind, input_velocity, current_state) ==
    IF kind = "joint"
    THEN JointControl_compute_command(input_velocity, current_state)
    ELSE CartesianControl_compute_command(input_velocity, current_state)

\* most compute_command calls of one caller
MaxCalls == 3

ZeroVelocity == [i \in 1..6 |-> Zero]

\* input velocities: none, one within the limit of the mode, one beyond it,
\* and one with a component beyond the limit next to components within it
ControlVelocities(kind) ==
    {ZeroVelocity} \cup
    {IF kind = "joint"
     THEN <<Rat(-40, 1), Rat(25, 1), Zero, Zero, Zero, Rat(10, 1)>>
     ELSE <<Rat(4, 5), Rat(2, 5), Zero, Zero, Zero, Rat(-6, 5)>>} \cup
    {[ZeroVelocity EXCEPT ![i] = v] :
        i \in {1, 6},
        v \in IF kind = "joint" THEN {Rat(10, 1), Rat(-40, 1)}
              ELSE {Rat(1, 5), Rat(-4, 5)}}

\* the fixed current_state: the state of the mode present, absent, or (a
\* pose) of the wrong length, with and without a 'dt' entry
ControlStates(kind) ==
    LET states == IF kind = "joint"
                  THEN {[joint_angles |-> j] :
                            j \in {<<>>, default_joints,
                                   [default_joints EXCEPT ![1] = Rat(-45, 1)]}}
                  ELSE {[pose |-> q] :
                            q \in {<<>>, <<Milli(300), Zero, Milli(500)>>}
                                  \cup SafetyPoses}
    IN  states \cup {[f \in DOMAIN st \cup {"dt"} |->
                        IF f = "dt" THEN Rat(1, 15) ELSE st[f]] : st \in states}

ControlInit ==
    /\ \E kind \in {"joint", "cartesian"} :
        \E st \in ControlStates(kind) :
            control = [kind |-> kind, current_state |-> st,
                       input_velocity |-> ZeroVelocity, out |-> None,
                       nCalls |-> 0, moved |-> FALSE]
    /\ SafetyInit(TRUE, TRUE)
    /\ NoCaller
    /\ SessionInit("none")
    /\ allowed = {}
    /\ watch = NotWatching
    /\ backend = Accepting

\* control.out = mode.compute_command(v, current_state)
ComputeCommand ==
    /\ control.kind # "none"
    /\ control.nCalls < MaxCalls
    /\ \E v \in ControlVelocities(control.kind) :
        control' = [control EXCEPT
                       !.input_velocity = v,
                       !.out = compute_command(control.kind, v, control.current_state),
                       !.nCalls = @ + 1,
                       !.moved = @ \/ v # ZeroVelocity]
    /\ UNCHANGED <<cmdIn, poseRead, jointsRead, result, armed, nChecked, nStopped>>
    /\ UNCHANGED <<safetyVars, sessionVars, tickVars, envVars>>

\* result = safety.check_commands(control.out): the command of the control
\* mode goes through the safety monitor, which reads the same robot state
CheckComputed ==
    /\ control.kind # "none"
    /\ control.nCalls > 0
    /\ nChecked < MaxChecks
    /\ LET current == Get(control.current_state,
                          IF control.kind = "joint" THEN "joint_angles" ELSE "pose",
                          <<>>)
           pose == IF control.kind = "cartesian" /\ Len(current) = 6
                   THEN current ELSE <<>>
           joints == IF control.kind = "joint" THEN current ELSE <<>>
           r == check_commands(control.out, pose, joints)
       IN  /\ cmdIn' = control.out
           /\ poseRead' = pose
           /\ jointsRead' = joints
           /\ result' = r.commands
           /\ violations' = r.violations
    /\ nChecked' = nChecked + 1
    /\ UNCHANGED <<collision_level, config_error>>
    /\ UNCHANGED <<enable_velocity_limits, enable_workspace_limits,
                   max_linear_velocity, max_angular_velocity, max_joint_velocity,
                   workspace_limits, emergency_stop_triggered, safety_stop_sent>>
    /\ UNCHANGED <<armed, nStopped, control>>
    /\ UNCHANGED <<sessionVars, tickVars, envVars>>

ControlNext ==
    \/ ComputeCommand
    \/ CheckComputed

ControlSpec == ControlInit /\ [][ControlNext]_vars

(***************************************************************************)
(* VelocityControl: a caller of compute_command; the object keeps           *)
(* previous_velocity from one call to the next.  The inputs lie on one      *)
(* line through the origin, direction (3, 4, 0, 0, 0, 0), so that every     *)
(* Euclidean norm met is a rational number.                                 *)
(***************************************************************************)
\* a + b over the least common denominator
RSum(a, b) ==
    LET g == GCD(a.d, b.d)
    IN  Rat(a.n * (b.d \div g) + b.n * (a.d \div g), (a.d \div g) * b.d)

\* the largest k in lo..hi with k * k <= n
RECURSIVE SqrtBetween(_, _, _)
SqrtBetween(n, lo, hi) ==
    IF lo >= hi THEN lo
    ELSE LET mid == (lo + hi + 1) \div 2
         IN  IF mid * mid <= n THEN SqrtBetween(n, mid, hi)
             ELSE SqrtBetween(n, lo, mid - 1)

\* the square root of a square number below 2^31
ISqrt(n) == SqrtBetween(n, 0, Min(n, 46340))

\* sum(v**2 for v in vec) ** 0.5, for a vector whose norm is rational
Magnitude(vec) ==
    LET Sum[i \in 0..Len(vec)] ==
            IF i = 0 THEN Zero ELSE RSum(Sum[i - 1], RMul(vec[i], vec[i]))
        sq == Sum[Len(vec)]
    IN  Rat(ISqrt(sq.n), ISqrt(sq.d))

\* a velocity control that remembers the smoothed vector as it was before
\* the magnitude limit
VelocityControl_keeps_unlimited(input_velocity, previous_velocity, smoothing_factor, max_velocity) ==
    LET smoothed == [i \in 1..Len(input_velocity) |->
                        RAdd(RMul(smoothing_factor, previous_velocity[i]),
                             RMul(RSub(Rat(1, 1), smoothing_factor),
                                  input_velocity[i]))]
        magnitude == Magnitude(smoothed)
        limited == IF RGt(magnitude, max_velocity)
                   THEN [i \in 1..Len(smoothed) |->
                            RMul(smoothed[i], RDiv(max_velocity, magnitude))]
                   ELSE smoothed
    IN  [command |-> [type |-> "velocity", velocity |-> limited],
         previous_velocity |-> smoothed]

\* VelocityControl.compute_command: the command returned and
\* self.previous_velocity afterwards
VelocityControl_compute_command(input_velocity, previous_velocity, smoothing_factor, max_velocity) ==
    LET smoothed == [i \in 1..Len(input_velocity) |->
                        RAdd(RMul(smoothing_factor, previous_velocity[i]),
                             RMul(RSub(Rat(1, 1), smoothing_factor),
                                  input_velocity[i]))]
        magnitude == Magnitude(smoothed)
        limited == IF RGt(magnitude, max_velocity)
                   THEN [i \in 1..Len(smoothed) |->
                            RMul(smoothed[i], RDiv(max_velocity, magnitude))]
                   ELSE smoothed
    IN  [command |-> [type |-> "velocity", velocity |-> limited],
         previous_velocity |-> limited]

\* most compute_command calls on one VelocityControl
MaxSmoothCalls == 3

\* u * (3, 4, 0, 0, 0, 0): norms 0, 0.5, 1 and 2
SmoothInputs ==
    {<<RMul(Rat(3, 1), u), RMul(Rat(4, 1), u), Zero, Zero, Zero, Zero>> :
        u \in {Zero, Rat(1, 10), Rat(-1, 5), Rat(2, 5)}}

\* VelocityControl(max_velocity, smoothing_factor)
SmoothInit ==
    /\ \E max_velocity \in {Rat(1, 2), Rat(1, 1)},
          smoothing_factor \in {Zero, Rat(1, 4), Rat(1, 2)} :
            control = [kind |-> "velocity",
                       max_velocity |-> max_velocity,
                       smoothing_factor |-> smoothing_factor,
                       previous_velocity |-> ZeroVelocity,
                       input_velocity |-> ZeroVelocity,
                       out |-> None, nCalls |-> 0]
    /\ SafetyInit(TRUE, TRUE)
    /\ NoCaller
    /\ SessionInit("none")
    /\ allowed = {}
    /\ watch = NotWatching
    /\ backend = Accepting

\* control.out = velocity_control.compute_command(v, current_state)
SmoothCompute ==
    /\ control.kind = "velocity"
    /\ control.nCalls < MaxSmoothCalls
    /\ \E v \in SmoothInputs :
        LET r == VelocityControl_compute_command(v, control.previous_velocity,
                                                 control.smoothing_factor,
                                                 control.max_velocity)
        IN  control' = [control EXCEPT
                           !.input_velocity = v,
                           !.out = r.command,
                           !.previous_velocity = r.previous_velocity,
                           !.nCalls = @ + 1]
    /\ UNCHANGED <<cmdIn, poseRead, jointsRead, result, armed, nChecked, nStopped>>
    /\ UNCHANGED <<safetyVars, sessionVars, tickVars, envVars>>

SmoothSpec == SmoothInit /\ [][SmoothCompute]_vars

(***************************************************************************)
(* read_axis of JoystickTeleop.read_input on its own: a device with         *)
(* numaxes axes, a configured deadzone, and the raw value of one axis       *)
(***************************************************************************)
\* a read_axis that rescales what lies outside the deadzone to start at 0
read_axis_rescaled(axis_index, numaxes, raw, dz) ==
    IF axis_index >= numaxes
    THEN Zero
    ELSE IF RGt(RAbs(raw), dz)
    THEN RDiv(IF RGt(raw, Zero) THEN RSub(raw, dz) ELSE RAdd(raw, dz),
              RSub(Rat(1, 1), dz))
    ELSE Zero

\* read_axis(axis_index) for a device with numaxes axes whose get_axis gives
\* raw, under the deadzone dz
read_axis_at(axis_index, numaxes, raw, dz) ==
    IF axis_index >= numaxes
    THEN Zero
    ELSE IF RGt(RAbs(raw), dz) THEN raw ELSE Zero

\* most read_axis calls of one run
MaxAxisReads == 2

\* deadzones in [0, 1): none, the default, and two wider ones
Deadzones == {Zero, Rat(1, 10), Rat(1, 4), Rat(1, 2)}

\* raw axis values in [-1, 1], on, inside and outside each deadzone
RawValues ==
    {Rat(-1, 1), Rat(-1, 2), Rat(-1, 4), Rat(-1, 10), Rat(-1, 20), Zero,
     Rat(1, 20), Rat(1, 10), Rat(1, 5), Rat(1, 4), Rat(1, 2), Rat(3, 4), Rat(1, 1)}

\* the axis indices of DEFAULT_AXIS_MAP
AxisIndices == 0..5

\* JoystickTeleop(robot, deadzone = dz) on a device with 2, 4 or 6 axes
AxisInit ==
    /\ \E dz \in Deadzones, n \in {2, 4, 6} :
        control = [kind |-> "axis", deadzone |-> dz, numaxes |-> n,
                   axis_index |-> 0, raw |-> Zero, out |-> Zero, nCalls |-> 0]
    /\ SafetyInit(TRUE, TRUE)
    /\ NoCaller
    /\ SessionInit("joystick")
    /\ allowed = {}
    /\ watch = NotWatching
    /\ backend = Accepting

\* one read_axis call
ReadAxis ==
    /\ control.nCalls < MaxAxisReads
    /\ \E i \in AxisIndices, v \in RawValues :
        control' = [control EXCEPT
                      !.axis_index = i,
                      !.raw = v,
                      !.out = read_axis_at(i, control.numaxes, v, control.deadzone),
                      !.nCalls = @ + 1]
    /\ UNCHANGED <<cmdIn, poseRead, jointsRead, result, armed, nChecked, nStopped>>
    /\ UNCHANGED <<safetyVars, sessionVars, tickVars, envVars>>

AxisSpec == AxisInit /\ [][ReadAxis]_vars

(***************************************************************************)
(* RobotController on its own: the connection flag, the calls that reach    *)
(* the vendor SDK, and what each method returns.  The SDK answers a call    *)
(* with status 0 or 1.                                                      *)
(***************************************************************************)
\* an int returned by a method
Status(code) == [kind |-> "status", code |-> code]
\* a list returned by a getter
Value(v) == [kind |-> "value", value |-> v]

\* the result of a method that returns without reaching the SDK
Refused(c, r) == [ret |-> r, sdk |-> c.sdk]
\* the result of a method that returns what the SDK call fn returns
Forwarded(c, fn, r) == [ret |-> r, sdk |-> Append(c.sdk, fn)]

\* a stop that goes to the SDK whether or not the controller is connected
Controller_stop_unguarded(c, st) ==
    Forwarded(c, "rm_set_arm_stop", Status(st))

\* RobotController.movej
Controller_movej(c, joint_angles, st) ==
    IF ~c.connected THEN Refused(c, Status(-1))
    ELSE IF Len(joint_angles) # dof THEN Refused(c, Status(-1))
    ELSE Forwarded(c, "rm_movej", Status(st))

\* RobotController.movej_p
Controller_movej_p(c, st) ==
    IF ~c.connected THEN Refused(c, Status(-1))
    ELSE Forwarded(c, "rm_movej_p", Status(st))

\* RobotController.movel
Controller_movel(c, st) ==
    IF ~c.connected THEN Refused(c, Status(-1))
    ELSE Forwarded(c, "rm_movel", Status(st))

\* RobotController.stop
Controller_stop(c, st) ==
    IF ~c.connected THEN Refused(c, Status(-1))
    ELSE Forwarded(c, "rm_set_arm_stop", Status(st))

\* RobotController.get_current_joint_angles / get_current_pose /
\* get_joint_velocities: the field of the arm state when the SDK reports 0
Controller_get(c, st) ==
    IF ~c.connected THEN Refused(c, None)
    ELSE Forwarded(c, "rm_get_current_arm_state",
                   IF st = 0 THEN Value(default_joints) ELSE None)

\* RobotController.set_collision_level
Controller_set_collision_level(c, level, st) ==
    IF ~c.connected THEN Refused(c, Status(-1))
    ELSE IF ~(0 <= level /\ level <= 8) THEN Refused(c, Status(-1))
    ELSE Forwarded(c, "rm_set_collision_stage", Status(st))

\* RobotController.clear_errors
Controller_clear_errors(c, st) ==
    IF ~c.connected THEN Refused(c, Status(-1))
    ELSE Forwarded(c, "rm_clear_system_err", Status(st))

\* most method calls of one run
MaxControllerCalls == 3

\* status codes of the SDK
SdkStatus == {0, 1}
\* joint-angle arguments: one short, the model's DOF, one long
JointArgs == {SubSeq(default_joints, 1, dof - 1), default_joints,
              default_joints \o <<Zero>>}
\* collision levels, inside and outside 0..8
CollisionArgs == {-1, 0, 8, 9}

\* RobotController(): not connected, nothing sent
ControllerInit ==
    /\ control = [kind |-> "controller", connected |-> FALSE, sdk |-> <<>>,
                  op |-> "none", arg |-> 0, ret |-> None, nCalls |-> 0]
    /\ SafetyInit(TRUE, TRUE)
    /\ NoCaller
    /\ SessionInit("none")
    /\ allowed = {}
    /\ watch = NotWatching
    /\ backend = Accepting

\* the controller after the method op, called with arg, gave r
Called(op, arg, r) ==
    [control EXCEPT !.op = op, !.arg = arg, !.ret = r.ret, !.sdk = r.sdk,
                    !.nCalls = @ + 1]

\* RobotController.connect: a valid handle, a handle with id 0, or an
\* exception from the SDK
Connect ==
    /\ control.nCalls < MaxControllerCalls
    /\ \E outcome \in {"ok", "invalid_handle", "exception"} :
        control' = [control EXCEPT
                      !.op = "connect", !.arg = 0,
                      !.ret = Value(outcome = "ok"),
                      !.sdk = Append(@, "rm_create_robot_arm"),
                      !.connected = IF outcome = "ok" THEN TRUE
                                    ELSE IF outcome = "exception" THEN FALSE
                                    ELSE @,
                      !.nCalls = @ + 1]
    /\ UNCHANGED <<cmdIn, poseRead, jointsRead, result, armed, nChecked, nStopped>>
    /\ UNCHANGED <<safetyVars, sessionVars, tickVars, envVars>>

\* RobotController.disconnect
Disconnect ==
    /\ control.nCalls < MaxControllerCalls
    /\ control' = [control EXCEPT
                      !.op = "disconnect", !.arg = 0,
                      !.ret = Value(TRUE),
                      !.sdk = IF control.connected
                              THEN Append(@, "rm_delete_robot_arm") ELSE @,
                      !.connected = FALSE,
                      !.nCalls = @ + 1]
    /\ UNCHANGED <<cmdIn, poseRead, jointsRead, result, armed, nChecked, nStopped>>
    /\ UNCHANGED <<safetyVars, sessionVars, tickVars, envVars>>

\* movej(joint_angles)
Movej ==
    /\ control.nCalls < MaxControllerCalls
    /\ \E a \in JointArgs, st \in SdkStatus :
        control' = Called("movej", Len(a), Controller_movej(control, a, st))
    /\ UNCHANGED <<cmdIn, poseRead, jointsRead, result, armed, nChecked, nStopped>>
    /\ UNCHANGED <<safetyVars, sessionVars, tickVars, envVars>>

\* movej_p(pose)
MovejP ==
    /\ control.nCalls < MaxControllerCalls
    /\ \E st \in SdkStatus :
        control' = Called("movej_p", 0, Controller_movej_p(control, st))
    /\ UNCHANGED <<cmdIn, poseRead, jointsRead, result, armed, nChecked, nStopped>>
    /\ UNCHANGED <<safetyVars, sessionVars, tickVars, envVars>>

\* movel(pose)
Movel ==
    /\ control.nCalls < MaxControllerCalls
    /\ \E st \in SdkStatus :
        control' = Called("movel", 0, Controller_movel(control, st))
    /\ UNCHANGED <<cmdIn, poseRead, jointsRead, result, armed, nChecked, nStopped>>
    /\ UNCHANGED <<safetyVars, sessionVars, tickVars, envVars>>

\* stop()
StopArm ==
    /\ control.nCalls < MaxControllerCalls
    /\ \E st \in SdkStatus :
        control' = Called("stop", 0, Controller_stop(control, st))
    /\ UNCHANGED <<cmdIn, poseRead, jointsRead, result, armed, nChecked, nStopped>>
    /\ UNCHANGED <<safetyVars, sessionVars, tickVars, envVars>>

\* get_current_joint_angles()
GetCurrentJointAngles ==
    /\ control.nCalls < MaxControllerCalls
    /\ \E st \in SdkStatus :
        control' = Called("get_current_joint_angles", 0, Controller_get(control, st))
    /\ UNCHANGED <<cmdIn, poseRead, jointsRead, result, armed, nChecked, nStopped>>
    /\ UNCHANGED <<safetyVars, sessionVars, tickVars, envVars>>

\* get_current_pose()
GetCurrentPose ==
    /\ control.nCalls < MaxControllerCalls
    /\ \E st \in SdkStatus :
        control' = Called("get_current_pose", 0, Controller_get(control, st))
    /\ UNCHANGED <<cmdIn, poseRead, jointsRead, result, armed, nChecked, nStopped>>
    /\ UNCHANGED <<safetyVars, sessionVars, tickVars, envVars>>

\* get_joint_velocities()
GetJointVelocities ==
    /\ control.nCalls < MaxControllerCalls
    /\ \E st \in SdkStatus :
        control' = Called("get_joint_velocities", 0, Controller_get(control, st))
    /\ UNCHANGED <<cmdIn, poseRead, jointsRead, result, armed, nChecked, nStopped>>
    /\ UNCHANGED <<safetyVars, sessionVars, tickVars, envVars>>

\* set_collision_level(level)
SetCollisionLevel ==
    /\ control.nCalls < MaxControllerCalls
    /\ \E level \in CollisionArgs, st \in SdkStatus :
        control' = Called("set_collision_level", level, Controller_set_collision_level(control, level, st))
    /\ UNCHANGED <<cmdIn, poseRead, jointsRead, result, armed, nChecked, nStopped>>
    /\ UNCHANGED <<safetyVars, sessionVars, tickVars, envVars>>

\* clear_errors()
ClearErrors ==
    /\ control.nCalls < MaxControllerCalls
    /\ \E st \in SdkStatus :
        control' = Called("clear_errors", 0, Controller_clear_errors(control, st))
    /\ UNCHANGED <<cmdIn, poseRead, jointsRead, result, armed, nChecked, nStopped>>
    /\ UNCHANGED <<safetyVars, sessionVars, tickVars, envVars>>

ControllerNext ==
    \/ Connect
    \/ Disconnect
    \/ Movej
    \/ MovejP
    \/ Movel
    \/ StopArm
    \/ GetCurrentJointAngles
    \/ GetCurrentPose
    \/ GetJointVelocities
    \/ SetCollisionLevel
    \/ ClearErrors

ControllerSpec == ControllerInit /\ [][ControllerNext]_vars

(***************************************************************************)
(* KeyboardTeleop in terminal mode, one key after another through          *)
(* _read_terminal_input, from any configured speed within the bounds the   *)
(* speed keys keep                                                         *)
(***************************************************************************)
\* most keys read in one run
MaxPresses == 3

\* linear_speed arguments of KeyboardTeleop.__init__: the bounds, the default
\* and a step from each bound
SpeedStarts == {Rat(1, 100), Rat(1, 50), Rat(1, 10), Rat(49, 100), Rat(1, 2)}

\* what the terminal may deliver: no key, the speed keys, and one key of each
\* other kind (enable, home, movement, exit, gripper)
TerminalKeys == {"None", "+", "=", "-", "_", " ", "h", "w", "x", "g"}

\* KeyboardTeleop(robot, terminal_mode = True, linear_speed, angular_speed)
SpeedInit ==
    /\ source = "terminal"
    /\ pc = "idle"
    /\ exitBy = "none"
    /\ running = FALSE
    /\ enabled = FALSE
    /\ toggle_enable = FALSE
    /\ mode = "cartesian"
    /\ pressed = [a \in Actions |-> "unset"]
    /\ linear_speed \in SpeedStarts
    /\ angular_speed \in {RMul(linear_speed, Rat(3, 1)), Rat(3, 10)}
    /\ joint_speed = Rat(5, 1)
    /\ turbo_active = FALSE
    /\ cleanups = 0
    /\ keys = {}
    /\ input_state = None
    /\ commands = None
    /\ calls = <<>>
    /\ fired = {}
    /\ prevEnabled = FALSE
    /\ latchedAtRead = FALSE
    /\ missing = FALSE
    /\ nSpeedKeys = 0
    /\ spaceOdd = FALSE
    /\ control = [kind |-> "terminal", start |-> linear_speed, nCalls |-> 0]
    /\ SafetyInit(TRUE, TRUE)
    /\ NoCaller
    /\ allowed = TerminalKeys
    /\ watch = NotWatching
    /\ backend = Accepting

\* input_state = self._read_terminal_input(input_state) for one key
ReadTerminalKey ==
    /\ control.nCalls < MaxPresses
    /\ \E key \in TerminalKeys :
        LET r == _read_terminal_input(key, <<Milli(300), Zero, Milli(500), Zero, Zero, Zero>>)
        IN  /\ keys' = IF key = "None" THEN {} ELSE {key}
            /\ toggle_enable' = r.toggle_enable
            /\ linear_speed' = r.linear_speed
            /\ angular_speed' = r.angular_speed
            /\ calls' = r.calls
            /\ input_state' = IF r.raised THEN None ELSE r.input_state
            /\ spaceOdd' = IF key = " " THEN ~spaceOdd ELSE spaceOdd
            /\ nSpeedKeys' = IF key \in SpeedInputs THEN nSpeedKeys + 1 ELSE nSpeedKeys
    /\ control' = [control EXCEPT !.nCalls = @ + 1]
    /\ UNCHANGED <<source, pc, exitBy, running, enabled, mode, pressed, joint_speed,
                   turbo_active, cleanups>>
    /\ UNCHANGED <<commands, fired, prevEnabled, latchedAtRead, missing>>
    /\ UNCHANGED <<allowed, backend, watch>>
    /\ UNCHANGED <<cmdIn, poseRead, jointsRead, result, armed, nChecked, nStopped>>
    /\ UNCHANGED safetyVars

SpeedSpec == SpeedInit /\ [][ReadTerminalKey]_vars

(***************************************************************************)
(* ConfigLoader.load_robot_config (config_loader.py).  A dict is a         *)
(* function on its keys; a string that the code parses as a number is the  *)
(* sequence of its characters; update_rate values are rationals, as 100    *)
(* and 100.0 compare equal in the code.                                    *)
(***************************************************************************)
\* most load_robot_config calls in one run
MaxLoads == 2

\* bool(d) of a dict or None
Truthy(d) == d # None /\ DOMAIN d # {}

\* a.update(b)
dict_update(a, b) ==
    [k \in DOMAIN a \cup DOMAIN b |-> IF k \in DOMAIN b THEN b[k] ELSE a[k]]

DigitChars == {"0", "1", "2", "3", "4", "5", "6", "7", "8", "9"}

Digit(c) ==
    CASE c = "0" -> 0 [] c = "1" -> 1 [] c = "2" -> 2 [] c = "3" -> 3 [] c = "4" -> 4
      [] c = "5" -> 5 [] c = "6" -> 6 [] c = "7" -> 7 [] c = "8" -> 8 [] c = "9" -> 9

\* str.isdigit()
isdigit(str) == Len(str) > 0 /\ \A i \in 1..Len(str) : str[i] \in DigitChars

\* int(str) of a string of digits
RECURSIVE int(_)
int(str) ==
    IF Len(str) = 0 THEN 0
    ELSE 10 * int(SubSeq(str, 1, Len(str) - 1)) + Digit(str[Len(str)])

RECURSIVE TenTo(_)
TenTo(n) == IF n = 0 THEN 1 ELSE 10 * TenTo(n - 1)

\* float(str) of digits with at most one decimal point
float(str) ==
    LET dots == {i \in 1..Len(str) : str[i] = "."}
    IN  IF dots = {} THEN Rat(int(str), 1)
        ELSE LET at == CHOOSE i \in dots : TRUE
             IN  Rat(int(SubSeq(str, 1, at - 1) \o SubSeq(str, at + 1, Len(str))),
                     TenTo(Len(str) - at))

get_default_robot_config ==
    [robot |-> [ip |-> "192.168.1.18", port |-> 8080, model |-> "RM65"],
     control |-> [mode |-> "cartesian", update_rate |-> Rat(100, 1)],
     limits |-> [max_linear_velocity |-> Rat(1, 2),
                 max_angular_velocity |-> Rat(1, 1),
                 max_joint_velocity |-> Rat(30, 1)],
     safety |-> [enable_deadman |-> TRUE,
                 enable_collision_detection |-> TRUE,
                 collision_level |-> 3,
                 emergency_stop_enabled |-> TRUE]]

\* a file that is not there
Missing == [exists |-> FALSE, content |-> None]

\* load_yaml(filepath): the parsed content, None for a missing file
load_yaml(file) == IF file.exists THEN file.content ELSE None

\* load_dotenv(env_file): variables already in the environment keep their value
load_dotenv(env, dotenv) ==
    IF dotenv.exists /\ dotenv.content # None THEN dict_update(dotenv.content, env)
    ELSE env

\* the robot.yaml branch of load_env_config is taken
FromRobotYaml(robot_yaml) == robot_yaml.exists /\ Truthy(load_yaml(robot_yaml))

\* os.environ after load_env_config
environ_after(env, robot_yaml, dotenv) ==
    IF FromRobotYaml(robot_yaml) THEN env ELSE load_dotenv(env, dotenv)

load_env_config(env, robot_yaml, dotenv) ==
    LET config == load_yaml(robot_yaml)
        defaults == get_default_robot_config
        environ == load_dotenv(env, dotenv)
        built == [robot |-> [ip |-> Get(environ, "ROBOT_IP", "192.168.10.18"),
                             port |-> int(Get(environ, "ROBOT_PORT", <<"8", "0", "8", "0">>)),
                             model |-> Get(environ, "ROBOT_MODEL", "R1D2")],
                  control |-> [update_rate |->
                                 float(Get(environ, "DEFAULT_UPDATE_RATE", <<"1", "0", "0">>))],
                  speeds |-> [default |->
                                 float(Get(environ, "DEFAULT_SPEED", <<"0", ".", "1">>))],
                  logging |-> [level |-> Get(environ, "LOG_LEVEL", "INFO")]]
        dof_env == Get(environ, "ROBOT_DOF", <<>>)
    IN  IF FromRobotYaml(robot_yaml)
        THEN [k \in DOMAIN config \cup DOMAIN defaults |->
                 IF k \in DOMAIN config THEN config[k] ELSE defaults[k]]
        ELSE IF dof_env # <<>> /\ isdigit(dof_env)
        THEN [built EXCEPT !.robot = dict_update(@, [dof |-> int(dof_env)])]
        ELSE built

load_robot_config(file, env, robot_yaml, dotenv) ==
    LET yaml_config == load_yaml(file)
        merged == IF Truthy(yaml_config)
                  THEN dict_update(get_default_robot_config, yaml_config)
                  ELSE get_default_robot_config
        env_config == load_env_config(env, robot_yaml, dotenv)
        with_robot == IF "robot" \in DOMAIN env_config /\ Truthy(env_config["robot"])
                      THEN [merged EXCEPT !["robot"] = dict_update(@, env_config["robot"])]
                      ELSE merged
    IN  IF "control" \in DOMAIN env_config /\ Truthy(env_config["control"])
        THEN [with_robot EXCEPT !["control"] = dict_update(@, env_config["control"])]
        ELSE with_robot

\* the variables the four settings are read from, and a value for each
SettingVars == {"ROBOT_IP", "ROBOT_PORT", "ROBOT_MODEL", "DEFAULT_UPDATE_RATE"}

EnvValue(name) ==
    CASE name = "ROBOT_IP" -> "10.1.1.1"
      [] name = "ROBOT_PORT" -> <<"7", "0", "0", "0">>
      [] name = "ROBOT_MODEL" -> "RM75"
      [] name = "DEFAULT_UPDATE_RATE" -> <<"2", "0", "0">>

\* process environments: any of the four variables set, ROBOT_DOF unset,
\* a number or not a number
Environments ==
    {[k \in S \cup D |-> IF k = "ROBOT_DOF" THEN dv ELSE EnvValue(k)] :
        S \in SUBSET SettingVars, D \in {{}, {"ROBOT_DOF"}}, dv \in {<<"7">>, <<"x">>}}

YamlRobot == [ip |-> "10.0.0.5", port |-> 9000, model |-> "RM63"]

\* the robot section of a config file: any of the three keys
YamlRobots == {[k \in S |-> YamlRobot[k]] : S \in SUBSET {"ip", "port", "model"}}

YamlControls == {[update_rate |-> Rat(50, 1)], [mode |-> "joint"]}

\* parsed config files: empty, or with a robot section, a control section or both
YamlContents ==
    {None}
    \cup {[k \in {} |-> None]}
    \cup {[robot |-> r] : r \in YamlRobots}
    \cup {[control |-> c] : c \in YamlControls}
    \cup {[robot |-> r, control |-> c] : r \in YamlRobots, c \in YamlControls}

ConfigFiles == {Missing} \cup {[exists |-> TRUE, content |-> c] : c \in YamlContents}

\* src/robot.yaml: absent, or naming the robot's address only
RobotYamls == {Missing, [exists |-> TRUE, content |-> [robot |-> [ip |-> "10.0.0.9"]]]}

\* src/.env: absent, or setting the robot's address
DotEnvs == {Missing, [exists |-> TRUE, content |-> [ROBOT_IP |-> "10.2.2.2"]]}

LoaderInit ==
    /\ \E env \in Environments, file \in ConfigFiles, ry \in RobotYamls, de \in DotEnvs :
        control = [kind |-> "loader", env |-> env, file |-> file, robot_yaml |-> ry,
                   dotenv |-> de, out |-> None, nCalls |-> 0]
    /\ SafetyInit(TRUE, TRUE)
    /\ NoCaller
    /\ SessionInit("keyboard")
    /\ allowed = {}
    /\ watch = NotWatching
    /\ backend = Accepting

\* config = ConfigLoader.load_robot_config(filepath)
LoadRobotConfig ==
    /\ control.nCalls < MaxLoads
    /\ control' = [control EXCEPT
                     !.out = load_robot_config(control.file, control.env,
                                               control.robot_yaml, control.dotenv),
                     !.env = environ_after(control.env, control.robot_yaml, control.dotenv),
                     !.nCalls = @ + 1]
    /\ UNCHANGED <<cmdIn, poseRead, jointsRead, result, armed, nChecked, nStopped>>
    /\ UNCHANGED <<safetyVars, sessionVars, tickVars, envVars>>

LoaderSpec == LoaderInit /\ [][LoadRobotConfig]_vars

(***************************************************************************)
(* The setters of SafetyMonitor, called with arguments of any value         *)
(***************************************************************************)
\* arguments of set_velocity_limits; None leaves the limit as it is
VelocityArgs == {None, Rat(-1, 1), Zero, Rat(1, 4)}

Axes == {AxisNames[i] : i \in DOMAIN AxisNames}

\* (min, max) tuples handed to set_workspace_limits
AxisArgs == {<<Rat(-1, 2), Rat(1, 2)>>, <<Rat(1, 1), Rat(-1, 1)>>}

\* levels handed to enable_collision_detection
LevelArgs == {-1, 0, 8, 9}

ConfigInit ==
    /\ SafetyInit(TRUE, TRUE)
    /\ NoCaller
    /\ control = NoControl
    /\ SessionInit("none")
    /\ allowed = {}
    /\ watch = NotWatching
    /\ backend = Accepting

\* SafetyMonitor.set_velocity_limits(linear, angular, joint)
SetVelocityLimits ==
    /\ \E linear \in VelocityArgs, angular \in VelocityArgs, joint \in VelocityArgs :
        /\ max_linear_velocity' =
               IF linear # None THEN linear ELSE max_linear_velocity
        /\ max_angular_velocity' =
               IF angular # None THEN angular ELSE max_angular_velocity
        /\ max_joint_velocity' =
               IF joint # None THEN joint ELSE max_joint_velocity
    /\ config_error' = "none"
    /\ UNCHANGED <<enable_velocity_limits, enable_workspace_limits, workspace_limits,
                   violations, emergency_stop_triggered, safety_stop_sent,
                   collision_level>>
    /\ UNCHANGED <<callerVars, sessionVars, tickVars, envVars>>

\* SafetyMonitor.set_workspace_limits(limits): workspace_limits.update(limits)
SetWorkspaceLimits ==
    /\ \E axes \in SUBSET Axes, lim \in AxisArgs :
        workspace_limits' = [a \in Axes |->
                                IF a \in axes THEN lim ELSE workspace_limits[a]]
    /\ config_error' = "none"
    /\ UNCHANGED <<enable_velocity_limits, enable_workspace_limits,
                   max_linear_velocity, max_angular_velocity, max_joint_velocity,
                   violations, emergency_stop_triggered, safety_stop_sent,
                   collision_level>>
    /\ UNCHANGED <<callerVars, sessionVars, tickVars, envVars>>

\* enable_collision_detection(level).  Called on the monitor, the name is
\* bound to the bool that __init__ stored on the instance and the call raises
\* TypeError before the method body is reached; called through the class,
\* the body runs
EnableCollisionDetection ==
    /\ \E level \in LevelArgs, through \in {"instance", "class"} :
        IF through = "instance"
        THEN /\ collision_level' = collision_level
             /\ config_error' = "TypeError"
        ELSE /\ collision_level' = IF 0 <= level /\ level <= 8 THEN level
                                   ELSE collision_level
             /\ config_error' = "none"
    /\ UNCHANGED <<enable_velocity_limits, enable_workspace_limits,
                   max_linear_velocity, max_angular_velocity, max_joint_velocity,
                   workspace_limits, violations, emergency_stop_triggered,
                   safety_stop_sent>>
    /\ UNCHANGED <<callerVars, sessionVars, tickVars, envVars>>

ConfigNext ==
    \/ SetVelocityLimits
    \/ SetWorkspaceLimits
    \/ EnableCollisionDetection

ConfigSpec == ConfigInit /\ [][ConfigNext]_vars

(***************************************************************************)
(* A session whose thread keeps running: every step of run() that can be    *)
(* taken is taken in the end.  The operator uses the deadman input, one     *)
(* movement input, the home input and one input whose handler raises.       *)
(***************************************************************************)
CancelRepertoire(src) ==
    IF src = "pygame" THEN {"LSHIFT", "w", "h", "g"}
    ELSE IF src = "terminal" THEN {" ", "w", "h", "g"}
    ELSE {"enable", "linear_x+", "home", "gripper_open"}

CancelInit ==
    /\ \E src \in Sources :
        /\ SessionInit(src)
        /\ allowed = CancelRepertoire(src)
    /\ SafetyInit(TRUE, TRUE)
    /\ NoCaller
    /\ control = NoControl
    /\ watch = NotWatching
    /\ backend = Accepting

\* the steps of the session thread
Thread ==
    \/ Setup
    \/ LoopTest
    \/ ReadInput
    \/ Deadman
    \/ Process
    \/ Check
    \/ Send
    \/ Sleep
    \/ Finally

CancelSpec == CancelInit /\ [][Next]_vars /\ WF_vars(Thread)

(***************************************************************************)
(* A session on an arm that may reject a move: rm_movej / rm_movel return  *)
(* a non-zero status code, which RobotController hands back to the caller  *)
(***************************************************************************)
RejectInit ==
    /\ \E src \in Sources :
        /\ SessionInit(src)
        /\ allowed = CancelRepertoire(src)
    /\ SafetyInit(TRUE, TRUE)
    /\ NoCaller
    /\ control = NoControl
    /\ watch = NotWatching
    /\ backend = [rejects |-> TRUE, status |-> 0]

RejectSpec == RejectInit /\ [][Next]_vars

(***************************************************************************)
(* A session whose operator is watched for one toggle-style action: the    *)
(* deadman input, the input of the action, and one movement input          *)
(***************************************************************************)
DebounceInit ==
    /\ \E src \in {"pygame", "joystick"}, a \in Actions :
        /\ SessionInit(src)
        /\ allowed = {ActionKey(src, a)}
                       \cup (IF src = "pygame" THEN {"LSHIFT", "w"}
                             ELSE {"enable", "linear_x+"})
        /\ watch = [NotWatching EXCEPT !.action = a, !.clean = TRUE]
        /\ backend = Accepting
    /\ SafetyInit(TRUE, TRUE)
    /\ NoCaller
    /\ control = NoControl

DebounceSpec == DebounceInit /\ [][Next]_vars

(***************************************************************************)
(* Properties                                                              *)
(***************************************************************************)
Has(seq, x) == \E i \in DOMAIN seq : seq[i] = x

\* C1: after trigger_emergency_stop every check_commands call returns a stop
\* command whatever the input, however many calls are made, until
\* reset_emergency_stop; a call made while the latch is not set returns a
\* command of the input's own type with the input's own fields.
StickyEmergencyStop ==
    nChecked > 0 =>
        IF armed
        THEN result.type = "stop" /\ nStopped = nChecked
        ELSE result.type = cmdIn.type /\ DOMAIN result = DOMAIN cmdIn

\* two calls returned stop while the latch was set, then the latch was reset
\* and a joint command came back as a clamped joint command
StickyEmergencyStop_Witness ==
    /\ ~armed
    /\ safety_stop_sent
    /\ nStopped >= 2
    /\ nChecked > 0
    /\ cmdIn.type = "joint"
    /\ result.type = "joint"
    /\ Has(violations, "joint_velocity_exceeded")

\* C2: on a tick that began with the safety latch set, and with no reset
\* since, no movej, movel or home move reaches the robot backend.
NoMotionWhileLatched ==
    \A i \in DOMAIN calls :
        IsMotion(calls[i]) => ~(latchedAtRead /\ calls[i].latched)

\* C3: on a tick whose deadman update left the session disabled, no movej,
\* movel or home move reaches the robot backend, whatever is held.
DeadmanBlocksMotion ==
    (pc \in {"sleep", "finally"} /\ ~enabled) =>
        \A i \in DOMAIN calls : ~IsMotion(calls[i])

\* a movement key is held on the tick that releases the deadman key
DeadmanBlocksMotion_Witness ==
    /\ pc = "sleep"
    /\ ~enabled
    /\ prevEnabled
    /\ keys \cap {"w", "1", "linear_x+", "angular_z-"} # {}
    /\ calls # <<>>

\* C4: a tick that ends disabled sends the backend exactly one call, a stop
\* from disable(), when the session was enabled as the tick began, and no call
\* at all when it was not.
OneStopOnDisable ==
    (pc = "sleep" /\ ~enabled) =>
        IF prevEnabled
        THEN /\ Len(calls) = 1
             /\ calls[1].op = "stop"
             /\ calls[1].by = "disable"
        ELSE calls = <<>>

\* the tick of the enabled-to-disabled transition, in joint mode
OneStopOnDisable_Witness ==
    /\ pc = "sleep"
    /\ ~enabled
    /\ prevEnabled
    /\ mode = "joint"
    /\ Len(calls) = 1
    /\ calls[1].op = "stop"

\* C5: when a tick's input has emergency_stop set, the loop is left on that
\* tick with the safety monitor's latch set.
EmergencyStopInputLatches ==
    (pc \in {"finally", "returned"} /\ exitBy = "emergency_stop") =>
        emergency_stop_triggered

\* the implied velocity of the components lo..hi of a target is within limit
WithinVelocity(target, current, lo, hi, limit) ==
    RLe(RMaxSeq(ImpliedVel(target, current, lo, hi)), limit)

\* C6: with both limits enabled, the command check_commands returns for a
\* six-component target implies, against the robot state read during the
\* check, a velocity within the limit of each category.
VelocityBound ==
    (/\ nChecked > 0
     /\ ~armed
     /\ enable_velocity_limits
     /\ enable_workspace_limits
     /\ Len(Get(result, "target", <<>>)) = 6) =>
        IF result.type = "cartesian"
        THEN poseRead # <<>> =>
                /\ WithinVelocity(result.target, poseRead, 1, 3, max_linear_velocity)
                /\ WithinVelocity(result.target, poseRead, 4, 6, max_angular_velocity)
        ELSE jointsRead # <<>> =>
                WithinVelocity(result.target, jointsRead, 1, 6, max_joint_velocity)

\* the target as the velocity step of check_commands leaves it
VelocityStepped ==
    IF enable_velocity_limits
    THEN _check_velocity_limits(cmdIn, poseRead, jointsRead, <<>>).commands.target
    ELSE cmdIn.target

\* C7: with the workspace check enabled, the Cartesian target check_commands
\* returns has x, y and z each within its own bounds: a component the velocity
\* step left below its minimum is the minimum, one left above its maximum is
\* the maximum, and every other component is as the velocity step left it.
WorkspaceClip ==
    (/\ nChecked > 0
     /\ ~armed
     /\ enable_workspace_limits
     /\ cmdIn.type = "cartesian"
     /\ Len(Get(cmdIn, "target", <<>>)) >= 3) =>
        /\ Len(result.target) = Len(VelocityStepped)
        /\ \A i \in 1..Len(result.target) :
            LET v == VelocityStepped[i]
                r == result.target[i]
            IN  IF i > 3
                THEN r = v
                ELSE LET lo == workspace_limits[AxisNames[i]][1]
                         hi == workspace_limits[AxisNames[i]][2]
                     IN  /\ RLe(lo, r) /\ RLe(r, hi)
                         /\ RLt(v, lo) => r = lo
                         /\ RGt(v, hi) => r = hi
                         /\ (RLe(lo, v) /\ RLe(v, hi)) => r = v

\* a target beyond the x and the y maximum after velocity scaling, clipped on
\* both, and in another check a z below the minimum
WorkspaceClip_Witness ==
    /\ nChecked > 0
    /\ ~armed
    /\ Has(violations, "linear_velocity_exceeded")
    /\ Has(violations, "x_max_exceeded")
    /\ Has(violations, "y_max_exceeded")
    /\ result.target[1] = Milli(700)
    /\ result.target[2] = Milli(700)
    /\ result.target[3] = cmdIn.target[3]

\* a target within the workspace bounds
InWorkspace(target) ==
    \A i \in 1..3 :
        /\ RLe(workspace_limits[AxisNames[i]][1], target[i])
        /\ RLe(target[i], workspace_limits[AxisNames[i]][2])

\* C8: every Cartesian or joint move a tick dispatches (the home move aside)
\* has its x, y, z inside the workspace bounds and implies, against the robot
\* state it was computed from, a velocity within the configured limits.
DispatchedIsChecked ==
    \A i \in DOMAIN calls :
        LET c == calls[i]
        IN  /\ c.op = "movel" =>
                /\ InWorkspace(c.target)
                /\ WithinVelocity(c.target, c.current, 1, 3, max_linear_velocity)
                /\ WithinVelocity(c.target, c.current, 4, 6, max_angular_velocity)
            /\ (c.op = "movej" /\ c.by # "move_to_home") =>
                WithinVelocity(c.target, c.current, 1, dof, max_joint_velocity)

\* C9: while the mode-switch input is held over consecutive enabled ticks,
\* whichever tick the hold began on, the mode has toggled exactly once.
DebouncedModeSwitch ==
    (watch.action = "mode_switch" /\ watch.clean /\ watch.held) =>
        watch.holdFires = 1

\* C10: after press, release, press of a toggle-style input the action has
\* fired exactly twice.
LatchResetOnRelease ==
    (watch.clean /\ watch.presses = 2) => watch.fires = 2

(***************************************************************************)
(* Leaving the loop.                                                       *)
(***************************************************************************)

EnteredLoop == exitBy # "setup_failed" /\ pc # "idle"

\* C11: once run() has entered the loop, cleanup() runs exactly once before
\* run() returns, whichever way the loop is left (stop(), the emergency-stop
\* input, KeyboardInterrupt, an exception of a component), and never while
\* the loop is still going.
CleanupExactlyOnce ==
    /\ cleanups <= 1
    /\ (pc = "returned" /\ EnteredLoop) => cleanups = 1
    /\ pc # "returned" => cleanups = 0

CleanupExactlyOnce_Witness ==
    /\ pc = "returned"
    /\ exitBy = "interrupt"
    /\ cleanups = 1
    /\ enabled

\* C12: on every way out of the loop, the last thing the robot was told
\* before cleanup() runs is stop().
StopBeforeCleanup ==
    pc = "finally" => (calls # <<>> /\ calls[Len(calls)].op = "stop")

\* C13: on every tick and for every input source, the input state carries
\* joint deltas of length exactly DOF, and every joint target handed to the
\* robot has length exactly DOF.
DofInvariant ==
    /\ "enable" \in DOMAIN input_state =>
           /\ "joint_deltas" \in DOMAIN input_state
           /\ Len(input_state.joint_deltas) = dof
    /\ \A i \in DOMAIN calls :
           calls[i].op = "movej" => Len(calls[i].target) = dof

(***************************************************************************)
(* Control modes                                                           *)
(***************************************************************************)

\* the field of the fixed current_state a mode works on
CurrentOf(c) ==
    Get(c.current_state, IF c.kind = "joint" THEN "joint_angles" ELSE "pose", <<>>)

\* the mode can work on the state: joint angles are there, the pose has its
\* six components
StateUsable(c) ==
    IF c.kind = "joint" THEN CurrentOf(c) # <<>> ELSE Len(CurrentOf(c)) = 6

\* C14: with an all-zero input velocity and a fixed current state,
\* JointControl.compute_command returns the current joint angles as target
\* and CartesianControl.compute_command the current pose, on the first call
\* and on every later one, whatever the calls before it were.
IdempotentHold ==
    (control.kind # "none" /\ control.nCalls > 0
        /\ control.input_velocity = ZeroVelocity)
    => control.out.target = IF StateUsable(control) THEN CurrentOf(control) ELSE <<>>

IdempotentHold_Witness ==
    /\ control.kind = "joint"
    /\ control.nCalls = MaxCalls
    /\ control.moved
    /\ control.input_velocity = ZeroVelocity
    /\ "dt" \in DOMAIN control.current_state
    /\ control.out.target = [default_joints EXCEPT ![1] = Rat(-45, 1)]

\* C15: every command with a target that check_commands returns carries a
\* velocity percent between 1 and 100.
VelocityPercentInRange ==
    (nChecked > 0 /\ "target" \in DOMAIN result)
    => ("velocity" \in DOMAIN result /\ result.velocity \in 1..100)

\* a step that ends in a run given up for a failed setup()
SetupFailureStep ==
    exitBy' = "setup_failed" =>
        /\ pc \in {"idle", "returned"}
        /\ pc' = "returned"
        /\ ~running /\ ~running'
        /\ calls = <<>> /\ calls' = <<>>
        /\ input_state' = None
        /\ cleanups' = 0
        /\ UNCHANGED tickVars

\* C16: when setup() returns false, run() returns straight from its start:
\* the running flag is not set, no tick is begun (read_input is not called),
\* nothing is sent to the robot, and nothing of the session changes.
SetupFailureReturns == [][SetupFailureStep]_vars

SetupFailureReturns_Witness ==
    /\ exitBy = "setup_failed"
    /\ pc = "returned"
    /\ source = "joystick"
    /\ emergency_stop_triggered

\* C17: on an enabled tick with non-zero input on which the robot reports no
\* pose or no joint angles, no motion command reaches the robot, no exception
\* leaves the tick, and the tick runs on to its end.
StateUnavailableSkipsTick ==
    missing =>
        /\ \A i \in DOMAIN calls : ~IsMotion(calls[i])
        /\ exitBy \in {"none", "interrupt"}
        /\ exitBy = "none" => pc \in {"deadman", "process", "check", "send", "sleep"}

StateUnavailableSkipsTick_Witness ==
    /\ missing
    /\ pc = "sleep"
    /\ source = "joystick"
    /\ enabled
    /\ commands.type = "cartesian"
    /\ calls = <<>>

\* C18: an exception raised by read_input, process_input, check_commands or
\* send_commands on one tick does not end the session: the loop is not left
\* because of it.
ComponentFailureKeepsSession ==
    exitBy = "exception" => pc \notin {"finally", "returned"}

(***************************************************************************)
(* Configuration                                                           *)
(***************************************************************************)

\* C19: after construction and after any sequence of setter calls, the
\* three velocity limits are greater than zero, every workspace axis has
\* min < max, and collision_level lies between 0 and 8.
LimitsWellFormed ==
    /\ RGt(max_linear_velocity, Zero)
    /\ RGt(max_angular_velocity, Zero)
    /\ RGt(max_joint_velocity, Zero)
    /\ \A a \in Axes : RLt(workspace_limits[a][1], workspace_limits[a][2])
    /\ collision_level \in 0..8

(***************************************************************************)
(* Concurrency                                                             *)
(***************************************************************************)

\* C20: trigger_emergency_stop may be called while the session thread is
\* inside a tick; however the call interleaves with the tick's
\* check_commands and send_commands steps, send_commands sends no motion
\* command once the call has returned and no reset has followed.
AsyncTriggerStopsTick ==
    \A i \in DOMAIN calls :
        (calls[i].by = "send_commands" /\ IsMotion(calls[i])) => ~calls[i].latched

(***************************************************************************)
(* Frame of reset_emergency_stop                                           *)
(***************************************************************************)

\* what a reset_emergency_stop call does, and all it leaves alone
ResetFrame ==
    /\ ~emergency_stop_triggered'
    /\ violations' = <<>>
    /\ enabled' = enabled
    /\ running' = running
    /\ toggle_enable' = toggle_enable
    /\ pc' = pc
    /\ calls' = calls
    /\ safety_stop_sent' = safety_stop_sent
    /\ UNCHANGED <<enable_velocity_limits, enable_workspace_limits,
                   max_linear_velocity, max_angular_velocity, max_joint_velocity,
                   workspace_limits, collision_level>>
    /\ UNCHANGED <<commands, input_state, mode, linear_speed, angular_speed,
                   joint_speed>>

\* C21: reset_emergency_stop clears the latch and the violations list and
\* changes nothing else: the session's enabled and running flags, the
\* velocity and workspace limits stay as they are and nothing is sent to
\* the robot.
ResetChangesOnlyLatch == [][ResetEmergencyStop => ResetFrame]_vars

ResetChangesOnlyLatch_Witness ==
    /\ safety_stop_sent
    /\ ~emergency_stop_triggered
    /\ ~armed
    /\ ~enabled
    /\ running
    /\ pc = "read"
    /\ violations = <<>>

(***************************************************************************)
(* Cancellation                                                            *)
(***************************************************************************)

\* stop() only clears the running flag: the tick in progress is where it was
StopStep ==
    Stop => /\ ~running'
            /\ pc' = pc
            /\ UNCHANGED <<enabled, exitBy, cleanups>>
            /\ UNCHANGED tickVars

\* the running flag is read where a tick begins and nowhere else: a tick
\* begins only with the flag set, and a tick under way is not cut short by
\* the flag
TickStep ==
    /\ (pc = "loop" /\ pc' = "read") => running
    /\ (pc = "loop" /\ ~running) => pc' \in {"loop", "finally"}
    /\ (exitBy = "none" /\ exitBy' = "stopped") => (pc = "loop" /\ ~running)

\* C22: stop() does not preempt the tick in progress, the running flag is
\* read once per tick at the top of the loop, no tick starts once the flag
\* is cleared, and run() then returns after cleanup() has run.
CooperativeCancel ==
    /\ [][StopStep /\ TickStep]_vars
    /\ (~running /\ pc \notin {"idle", "returned"})
           ~> (pc = "returned" /\ cleanups = 1)

CooperativeCancel_Witness ==
    /\ ~running
    /\ exitBy = "none"
    /\ pc = "sleep"
    /\ \E i \in DOMAIN calls : IsMotion(calls[i]) /\ calls[i].by = "send_commands"

(***************************************************************************)
(* Velocity scaling                                                        *)
(***************************************************************************)

\* the components lo..hi of a target after proportional scaling to limit:
\* current + (target - current) * limit / largest, when largest > limit
Proportional(target, current, lo, hi, limit) ==
    LET largest == RMaxSeq([i \in 1..(hi - lo + 1) |->
                      RDiv(RAbs(RSub(target[lo + i - 1], current[lo + i - 1])),
                           dt_assumed)])
    IN  [i \in 1..(hi - lo + 1) |->
            IF RGt(largest, limit)
            THEN RAdd(current[lo + i - 1],
                      RDiv(RMul(RSub(target[lo + i - 1], current[lo + i - 1]), limit),
                           largest))
            ELSE target[lo + i - 1]]

\* the largest implied velocity of the components lo..hi is the limit if it
\* was above the limit in the input, and what it was otherwise
EndsAtLimit(out, in, current, lo, hi, limit) ==
    LET before == RMaxSeq(ImpliedVel(in, current, lo, hi))
        after == RMaxSeq(ImpliedVel(out, current, lo, hi))
    IN  IF RGt(before, limit) THEN after = limit ELSE after = before

\* the scenario of the specification: pose all zeros, target 1 m along x
ScalingExample ==
    _check_velocity_limits(
        [type |-> "cartesian", velocity |-> 50,
         target |-> <<Rat(1, 1), Zero, Zero, Zero, Zero, Zero>>],
        <<Zero, Zero, Zero, Zero, Zero, Zero>>, <<>>, <<>>).commands.target

\* C23: with the velocity check on and the robot state read, the velocity
\* step of check_commands scales every component of a category by one
\* factor, limit / largest implied velocity, when the largest exceeds the
\* limit, so that the largest ends at the limit, and leaves the category
\* alone otherwise; x, y and z may afterwards be clipped to the workspace.
ProportionalScaling ==
    /\ max_linear_velocity = DefaultMaxLinearVelocity =>
           ScalingExample = <<Milli(5), Zero, Zero, Zero, Zero, Zero>>
    /\ (nChecked > 0 /\ ~armed /\ enable_velocity_limits
          /\ Len(Get(cmdIn, "target", <<>>)) = 6) =>
           IF cmdIn.type = "cartesian"
           THEN poseRead # <<>> =>
                   LET lin == Proportional(cmdIn.target, poseRead, 1, 3,
                                           max_linear_velocity)
                       ang == Proportional(cmdIn.target, poseRead, 4, 6,
                                           max_angular_velocity)
                   IN  /\ SubSeq(result.target, 4, 6) = ang
                       /\ EndsAtLimit(result.target, cmdIn.target, poseRead, 4, 6,
                                      max_angular_velocity)
                       /\ ~enable_workspace_limits =>
                              /\ SubSeq(result.target, 1, 3) = lin
                              /\ EndsAtLimit(result.target, cmdIn.target, poseRead,
                                             1, 3, max_linear_velocity)
                       /\ enable_workspace_limits =>
                              \A i \in 1..3 :
                                  \/ result.target[i] = lin[i]
                                  \/ result.target[i] = ClipAxis(lin[i], AxisNames[i]).value
           ELSE jointsRead # <<>> =>
                   /\ result.target = Proportional(cmdIn.target, jointsRead, 1, 6,
                                                   max_joint_velocity)
                   /\ EndsAtLimit(result.target, cmdIn.target, jointsRead, 1, 6,
                                  max_joint_velocity)

ProportionalScaling_Witness ==
    /\ nChecked > 0 /\ ~armed
    /\ enable_velocity_limits /\ ~enable_workspace_limits
    /\ cmdIn.type = "cartesian"
    /\ poseRead # <<>>
    /\ Len(cmdIn.target) = 6
    /\ Has(violations, "linear_velocity_exceeded")
    /\ result.target[1] # cmdIn.target[1]
    /\ result.target[2] # cmdIn.target[2]
    /\ RLt(RAbs(RSub(cmdIn.target[1], poseRead[1])),
           RAbs(RSub(cmdIn.target[2], poseRead[2])))

\* v held to [-limit, limit]
Limited(v, limit) ==
    IF RGt(v, limit) THEN limit
    ELSE IF RLt(v, RNeg(limit)) THEN RNeg(limit) ELSE v

\* C24: JointControl returns current[i] + clamp(v[i], max_joint_velocity) * dt
\* for each joint, CartesianControl the same with max_linear_velocity for
\* x, y, z and max_angular_velocity for rx, ry, rz; each axis is clamped on
\* its own, whatever the other components are.
ClampThenIntegrate ==
    (control.kind # "none" /\ control.nCalls > 0 /\ StateUsable(control)) =>
        LET current == CurrentOf(control)
            v == control.input_velocity
            dt == IF "dt" \in DOMAIN control.current_state
                  THEN control.current_state.dt ELSE Rat(1, 100)
            limit(i) == IF control.kind = "joint" THEN JointControlMaxVelocity
                        ELSE IF i <= 3 THEN CartesianControlMaxLinear
                        ELSE CartesianControlMaxAngular
        IN  /\ control.out.type = control.kind
            /\ Len(control.out.target) = Len(current)
            /\ \A i \in 1..Len(current) :
                   control.out.target[i] =
                       RAdd(current[i], RMul(Limited(v[i], limit(i)), dt))

ClampThenIntegrate_Witness ==
    /\ control.kind = "cartesian"
    /\ control.nCalls > 0
    /\ control.input_velocity = <<Rat(4, 5), Rat(2, 5), Zero, Zero, Zero, Rat(-6, 5)>>
    /\ control.current_state.pose = <<Milli(300), Zero, Milli(500), Zero, Zero, Zero>>
    /\ control.out.target =
           <<Milli(305), Milli(4), Milli(500), Zero, Zero, Milli(-10)>>

\* C25: without joint angles JointControl returns a joint command with an
\* empty target, without a pose of exactly six components CartesianControl
\* returns a Cartesian command with an empty target, and check_commands
\* returns an empty-target command as it is and records no violation.
FailSoft ==
    /\ (control.kind # "none" /\ control.nCalls > 0 /\ ~StateUsable(control)) =>
           control.out = [type |-> control.kind, target |-> <<>>]
    /\ (control.kind # "none" /\ nChecked > 0 /\ cmdIn.target = <<>>) =>
           /\ result = cmdIn
           /\ result.target = <<>>
           /\ violations = <<>>

FailSoft_Witness ==
    /\ control.kind = "cartesian"
    /\ Len(CurrentOf(control)) = 3
    /\ control.input_velocity # ZeroVelocity
    /\ control.out.target = <<>>
    /\ nChecked > 0
    /\ result = [type |-> "cartesian", target |-> <<>>]

(***************************************************************************)
(* Velocity smoothing                                                      *)
(***************************************************************************)

\* the sum of the squares of the components
NormSq(vec) ==
    LET Sum[i \in 0..Len(vec)] ==
            IF i = 0 THEN Zero ELSE RSum(Sum[i - 1], RMul(vec[i], vec[i]))
    IN  Sum[Len(vec)]

\* factor * previous + (1 - factor) * input, component by component
Smoothed(previous, input, factor) ==
    [i \in 1..Len(input) |->
        RAdd(RMul(factor, previous[i]), RMul(RSub(Rat(1, 1), factor), input[i]))]

\* out is vec times one non-negative factor
CommonFactor(out, vec) ==
    \A i, j \in 1..Len(vec) :
        /\ RMul(out[i], vec[j]) = RMul(out[j], vec[i])
        /\ RLe(Zero, RMul(out[i], vec[i]))

\* what one compute_command call does to a VelocityControl
SmoothStep ==
    control' # control =>
        LET sm == Smoothed(control.previous_velocity, control'.input_velocity,
                           control.smoothing_factor)
            limit == RMul(control.max_velocity, control.max_velocity)
            out == control'.out.velocity
        IN  /\ control'.out.type = "velocity"
            /\ IF RGt(NormSq(sm), limit)
               THEN CommonFactor(out, sm) /\ NormSq(out) = limit
               ELSE out = sm
            /\ RLe(NormSq(out), limit)
            /\ control'.previous_velocity = out
            /\ control'.max_velocity = control.max_velocity
            /\ control'.smoothing_factor = control.smoothing_factor

\* C26: VelocityControl starts with previous all zeros; every
\* compute_command call smooths component by component with the stored
\* previous vector, rescales by one factor when the norm exceeds
\* max_velocity so that the norm returned never does, and stores exactly
\* the vector it returns as previous.
SmoothingKeepsState ==
    /\ [](control.nCalls = 0 => control.previous_velocity = ZeroVelocity)
    /\ [][SmoothStep]_vars

SmoothingKeepsState_Witness ==
    /\ control.kind = "velocity"
    /\ control.nCalls = MaxSmoothCalls
    /\ control.smoothing_factor = Rat(1, 2)
    /\ control.max_velocity = Rat(1, 2)
    /\ control.input_velocity = ZeroVelocity
    /\ control.previous_velocity =
           <<Rat(3, 20), Rat(1, 5), Zero, Zero, Zero, Zero>>
    /\ control.out.velocity = control.previous_velocity


\* the names check_commands gives to what it clamps
ViolationNames ==
    {"linear_velocity_exceeded", "angular_velocity_exceeded", "joint_velocity_exceeded"}
        \cup {AxisNames[i] \o "_min_exceeded" : i \in 1..3}
        \cup {AxisNames[i] \o "_max_exceeded" : i \in 1..3}

\* how often x occurs in seq
Count(seq, x) == Cardinality({i \in DOMAIN seq : seq[i] = x})

\* the list a check_commands call leaves, against that call's input and result
ViolationsOfCall(v, r) ==
    LET t == Get(cmdIn, "target", <<>>)
        velChecked == ~emergency_stop_triggered /\ enable_velocity_limits
        poseChecked == velChecked /\ cmdIn.type = "cartesian" /\ Len(t) >= 6
                           /\ poseRead # <<>>
        jointsChecked == velChecked /\ cmdIn.type = "joint" /\ t # <<>>
                             /\ jointsRead # <<>>
    IN  /\ \A i \in DOMAIN v : v[i] \in ViolationNames
        /\ \A n \in ViolationNames : Count(v, n) <= 1
        /\ Has(v, "linear_velocity_exceeded") <=>
                (poseChecked /\ ~WithinVelocity(t, poseRead, 1, 3, max_linear_velocity))
        /\ Has(v, "angular_velocity_exceeded") <=>
                (poseChecked /\ ~WithinVelocity(t, poseRead, 4, 6, max_angular_velocity))
        /\ Has(v, "joint_velocity_exceeded") <=>
                (jointsChecked
                    /\ ~WithinVelocity(t, jointsRead, 1, Len(t), max_joint_velocity))
        /\ \A i \in 1..3 :
            /\ Has(v, AxisNames[i] \o "_min_exceeded") =>
                    r.target[i] = workspace_limits[AxisNames[i]][1]
            /\ Has(v, AxisNames[i] \o "_max_exceeded") =>
                    r.target[i] = workspace_limits[AxisNames[i]][2]
        /\ r = cmdIn => v = <<>>
        /\ (v = <<>> /\ ~emergency_stop_triggered) => r = cmdIn
        /\ emergency_stop_triggered => v = <<>>

\* C27: every check_commands call leaves in the violations list exactly the
\* names of what that call clamped, each at most once, whatever the list held
\* before: a velocity name iff that category of the call's target exceeded its
\* limit, an axis name only where the returned target sits on that bound, the
\* empty list iff the command came back unchanged, and the empty list when the
\* call was made with the emergency stop latched.
ViolationsRebuilt == [][SafetyCheck => ViolationsOfCall(violations', result')]_vars

\* a second call in a row that clamped the same three things as the first and
\* left three names, not six
ViolationsRebuilt_Witness ==
    /\ nChecked = 2
    /\ ~armed
    /\ Len(violations) = 3
    /\ Has(violations, "linear_velocity_exceeded")
    /\ Has(violations, "x_max_exceeded")
    /\ Has(violations, "y_max_exceeded")

TickNeverBlocks == \A i \in DOMAIN calls : ~calls[i].block

\* the enable input of the tick in progress: the deadman key or button is held
EnableInput == keys \cap DeadmanInputs # {}

\* the tick in progress is past its deadman update
PastDeadman == pc \in {"process", "check", "send", "sleep"}

\* enabled as the input source derives it: the tick's enable input for the
\* level-triggered sources, the parity of the SPACE presses for the terminal
Derived == IF source = "terminal" THEN spaceOdd ELSE EnableInput

\* the tick in progress left the loop on an emergency-stop input
EmergencyExit == pc = "finally" /\ exitBy = "emergency_stop"

TerminatedIsStopped ==
    (pc = "returned" /\ exitBy \in {"setup_failed", "exception"}) =>
        (~running /\ cleanups = 1)

\* a step on which the arm returns a non-zero status code for a move
RejectedStep == backend.status = 0 /\ backend'.status # 0

\* the step goes on as it does when the move is accepted: the loop is not
\* left and the move has been sent once
RejectionContinues ==
    /\ running' = running
    /\ exitBy' = exitBy
    /\ pc' \in {"deadman", "sleep"}
    /\ Cardinality(Motions(calls')) = 1

\* C32: a non-zero status code for a move neither stops the loop nor has the
\* move sent again; on every tick of every input source at most one arm
\* motion (movej, movel, home) reaches the backend, whether sent from
\* read_input or from send_commands; and the command of a tick is
\* process_input of that tick's input, with nothing carried into the next
\* tick.
RejectedNotRetried ==
    /\ [](Cardinality(Motions(calls)) <= 1)
    /\ [][RejectedStep => RejectionContinues]_vars
    /\ [][(Process /\ pc' = "check") =>
            commands' = process_input(input_state).commands]_vars
    /\ [][Sleep => (commands' = None /\ calls' = <<>> /\ backend'.status = 0)]_vars

\* a tick whose move the arm rejected has reached its sleep, the session
\* still running
RejectedNotRetried_Witness ==
    /\ pc = "sleep"
    /\ running
    /\ backend.status = 1
    /\ Cardinality(Motions(calls)) = 1
    /\ calls[Len(calls)].op = "movel"

\* C33: the value read_axis reports for an axis is exactly 0 when the raw
\* value's magnitude is below the deadzone, the raw value itself when it is
\* above, and 0 for an axis index the device does not have.
DeadzoneCoercion ==
    control.nCalls > 0 =>
        IF control.axis_index >= control.numaxes
        THEN control.out = Zero
        ELSE /\ RLt(RAbs(control.raw), control.deadzone) => control.out = Zero
             /\ RGt(RAbs(control.raw), control.deadzone) => control.out = control.raw

\* a deflection of 1/4 against a deadzone of 1/10 is reported as 1/4, and
\* on another run one of 1/20 as 0
DeadzoneCoercion_Witness ==
    /\ control.nCalls > 0
    /\ control.axis_index < control.numaxes
    /\ control.deadzone = Rat(1, 10)
    /\ control.raw = Rat(1, 4)
    /\ control.out = Rat(1, 4)

\* the deadman step of a tick whose input_state has emergency_stop set
EmergencyStopTick == Deadman /\ Get(input_state, "emergency_stop", FALSE)

\* what that step leaves: the loop left, at least one stop() and no motion in
\* the tick's calls, no command computed, the mode as it was, the session
\* disabled and not running
StoppedAtOnce ==
    /\ pc' = "finally"
    /\ \E i \in DOMAIN calls' : calls'[i].op = "stop"
    /\ Motions(calls') = {}
    /\ commands' = None
    /\ mode' = mode
    /\ ~enabled'
    /\ ~running'

\* C34: on a tick whose input has emergency_stop set, whatever else is held,
\* the backend receives at least one stop() and no motion command,
\* process_input and send_commands are not called (the loop is left from the
\* emergency-stop check, and stays left), and enabled and running are false
\* afterwards.
EmergencyStopFirst ==
    /\ [][EmergencyStopTick => StoppedAtOnce]_vars
    /\ [](exitBy = "emergency_stop" =>
            (pc \in {"finally", "returned"} /\ ~enabled /\ ~running
                /\ commands = None /\ Motions(calls) = {}))

\* the emergency-stop key held together with the deadman key and the home
\* key by an operator who was enabled: two stop() calls and nothing else
EmergencyStopFirst_Witness ==
    /\ source = "pygame"
    /\ pc = "finally"
    /\ exitBy = "emergency_stop"
    /\ keys = {"LSHIFT", "SPACE", "h"}
    /\ prevEnabled
    /\ ~enabled
    /\ ~running
    /\ Len(calls) = 2

\* the robot state the velocity step of the last check asked for was None or
\* empty
StateUnreadable ==
    IF cmdIn.type = "cartesian" THEN poseRead = <<>> ELSE jointsRead = <<>>

\* C35: when the robot state cannot be read during check_commands, no
\* velocity violation is recorded and the velocity step leaves the target as
\* it was: a joint command comes back unchanged, and a Cartesian one differs
\* from its input only by the workspace clip of x, y and z, which is still
\* applied.
VelocityNeedsState ==
    (nChecked > 0 /\ result.type # "stop" /\ StateUnreadable) =>
        /\ ~Has(violations, "linear_velocity_exceeded")
        /\ ~Has(violations, "angular_velocity_exceeded")
        /\ ~Has(violations, "joint_velocity_exceeded")
        /\ IF cmdIn.type = "cartesian" /\ enable_workspace_limits
                /\ Len(Get(cmdIn, "target", <<>>)) >= 3
           THEN /\ Len(result.target) = Len(cmdIn.target)
                /\ \A i \in 1..Len(result.target) :
                    result.target[i] =
                        IF i <= 3 THEN ClipAxis(cmdIn.target[i], AxisNames[i]).value
                        ELSE cmdIn.target[i]
                /\ [result EXCEPT !.target = cmdIn.target] = cmdIn
           ELSE result = cmdIn

\* a pose target 4 mm and 12 mrad from where the robot is, checked while the
\* pose cannot be read: x is clipped to its bound, the rotation passes
VelocityNeedsState_Witness ==
    /\ nChecked > 0
    /\ result.type = "cartesian"
    /\ poseRead = <<>>
    /\ enable_velocity_limits
    /\ enable_workspace_limits
    /\ Len(cmdIn.target) = 6
    /\ cmdIn.target[1] = Milli(702)
    /\ cmdIn.target[6] = Milli(12)
    /\ result.target[1] = Milli(700)
    /\ result.target[6] = Milli(12)
    /\ violations = <<"x_max_exceeded">>

\* C36: no enable_collision_detection(level) call on a SafetyMonitor raises:
\* a level within 0..8 is stored as collision_level and a level outside
\* leaves it as it was.
CollisionLevelAccepted ==
    [][EnableCollisionDetection =>
        (config_error' = "none" /\ collision_level' \in 0..8)]_vars

\* the methods that return a status code, and the getters
StatusMethods == {"movej", "movej_p", "movel", "stop", "set_collision_level",
                  "clear_errors"}
GetterMethods == {"get_current_joint_angles", "get_current_pose",
                  "get_joint_velocities"}

\* what a call of one of these methods gives when the controller is not
\* connected, or its argument is refused
GuardedCall ==
    LET op == control'.op
        refused == control'.sdk = control.sdk
    IN  /\ (~control.connected /\ op \in StatusMethods) =>
                (control'.ret = Status(-1) /\ refused)
        /\ (~control.connected /\ op \in GetterMethods) =>
                (control'.ret = None /\ refused)
        /\ (op = "movej" /\ control'.arg # dof) =>
                (control'.ret = Status(-1) /\ refused)
        /\ (op = "set_collision_level" /\ control'.arg \notin 0..8) =>
                (control'.ret = Status(-1) /\ refused)

\* C37: while the controller is not connected, movej, movej_p, movel, stop,
\* set_collision_level and clear_errors return -1 and the three getters
\* return None, none of them calling the SDK; movej also returns -1 without
\* an SDK call for a number of joint angles other than the DOF, and
\* set_collision_level for a level outside 0..8.
BackendGuarded == [][GuardedCall]_vars

\* a stop() after disconnect() that returned -1 and left the SDK alone
BackendGuarded_Witness ==
    /\ control.kind = "controller"
    /\ control.op = "stop"
    /\ ~control.connected
    /\ control.ret = Status(-1)
    /\ control.sdk = <<"rm_create_robot_arm", "rm_delete_robot_arm">>

\* linear_speed after a speed key: one hundredth up or down, held at the bound
SpeedUp(l) == IF RLe(RAdd(l, Rat(1, 100)), Rat(1, 2)) THEN RAdd(l, Rat(1, 100))
              ELSE Rat(1, 2)
SpeedDown(l) == IF RLe(Rat(1, 100), RSub(l, Rat(1, 100))) THEN RSub(l, Rat(1, 100))
                ELSE Rat(1, 100)

\* what one key read in terminal mode does to the two speeds
SpeedStep ==
    LET up == keys' \cap {"+", "="} # {}
        down == keys' \cap {"-", "_"} # {}
    IN  /\ up => linear_speed' = SpeedUp(linear_speed)
        /\ down => linear_speed' = SpeedDown(linear_speed)
        /\ (up \/ down) => angular_speed' = RMul(Rat(3, 1), linear_speed')
        /\ ~(up \/ down) =>
                (linear_speed' = linear_speed /\ angular_speed' = angular_speed)

\* C38: in terminal mode, from a linear speed within [0.01, 0.5], the linear
\* speed stays within [0.01, 0.5], and so above zero, whatever keys follow;
\* a '+' / '=' or '-' / '_' press moves it by 0.01 or holds it at the bound
\* and sets angular_speed to three times the new linear speed; no other key
\* changes either speed.
TerminalSpeedBounded ==
    /\ [](/\ RLe(Rat(1, 100), linear_speed)
          /\ RLe(linear_speed, Rat(1, 2))
          /\ RGt(linear_speed, Zero))
    /\ [][ReadTerminalKey => SpeedStep]_vars

\* from 0.49, a second '+' in a row: held at 0.5, angular 1.5
TerminalSpeedBounded_Witness ==
    /\ control.kind = "terminal"
    /\ control.start = Rat(49, 100)
    /\ control.nCalls = 2
    /\ nSpeedKeys = 2
    /\ keys = {"+"}
    /\ linear_speed = Rat(1, 2)
    /\ angular_speed = Rat(3, 2)

\* the config file provides section[key]
Provides(file, section, key) ==
    /\ Truthy(load_yaml(file))
    /\ section \in DOMAIN file.content
    /\ Truthy(file.content[section])
    /\ key \in DOMAIN file.content[section]

\* the fallbacks written into load_env_config's os.getenv calls
EnvFallbacks ==
    load_env_config([k \in {} |-> ""], Missing, Missing)

\* the values section[key] may take by the priority environment > config
\* file > built-in default, a built-in default being the entry of
\* get_default_robot_config or the fallback of load_env_config
ByPriority(c, name, fromEnv, section, key) ==
    IF name \in DOMAIN c.env THEN {fromEnv}
    ELSE IF Provides(c.file, section, key) THEN {c.file.content[section][key]}
    ELSE {get_default_robot_config[section][key], EnvFallbacks[section][key]}

\* C39: after load_robot_config, robot.ip, robot.port, robot.model and
\* control.update_rate each hold the environment variable's value when the
\* variable is set, otherwise the config file's value when the file provides
\* one, otherwise a built-in default; a value the config file provides is
\* not replaced by a built-in value while the variable is unset.
SettingsByPriority ==
    (control.kind = "loader" /\ control.nCalls > 0) =>
        LET c == control
            out == control.out
        IN  /\ out["robot"]["ip"] \in
                  ByPriority(c, "ROBOT_IP", Get(c.env, "ROBOT_IP", ""), "robot", "ip")
            /\ out["robot"]["port"] \in
                  ByPriority(c, "ROBOT_PORT", int(Get(c.env, "ROBOT_PORT", <<>>)),
                             "robot", "port")
            /\ out["robot"]["model"] \in
                  ByPriority(c, "ROBOT_MODEL", Get(c.env, "ROBOT_MODEL", ""),
                             "robot", "model")
            /\ out["control"]["update_rate"] \in
                  ByPriority(c, "DEFAULT_UPDATE_RATE",
                             float(Get(c.env, "DEFAULT_UPDATE_RATE", <<"0">>)),
                             "control", "update_rate")

====
